---- MODULE Spec2Model ----
(***************************************************************************)
(* Model of the op-account-appscripts spreadsheet pipeline: the meeting    *)
(* recap webhook (doPost / processMeetingRecapWebhook), the recap <->      *)
(* calendar matcher (matchMeetingRecapsToCalendarEvents), the calendar     *)
(* import and the Account Data Raw rebuild (generateAccountDataRaw).       *)
(*                                                                         *)
(* A sheet is modelled by the sequence of its data rows (the header row is *)
(* implicit), a row by a record of the columns the code reads or writes.   *)
(* An empty cell is the empty string, as getValues() returns it.  A sheet  *)
(* without data rows is the empty sequence; a sheet that does not exist is *)
(* named in missingSheets (and has no rows), a column a report sheet lacks *)
(* is named in absentColumns.                                              *)
(***************************************************************************)
EXTENDS Integers, Sequences, FiniteSets, TLC

VARIABLES
    recapSheet,      \* 'Webhook Meeting Recaps'
    calendarSheet,   \* 'Calendar Events'
    actionItemSheet, \* 'Meeting Action Items'
    othersItemSheet, \* 'Others Action Items'
    accountsCard,    \* 'Accounts Card Report'
    opptysReport,    \* 'Opptys Report'
    renewalOpps,     \* 'Renewal Opportunities'
    accountDataRaw,  \* 'Account Data Raw'
    mappingSheet,    \* 'Accounts to Email Domains Mapping'
    emailSheet,      \* 'Email Communications'
    githubSheet,     \* 'GitHub Tasks'
    oppMappingSheet, \* 'Opportunities to Email Domains Mapping'
    missingSheets,   \* names of the sheets the spreadsheet does not have
    absentColumns,   \* <<sheet, header>> pairs: columns a report sheet lacks
    tracker,         \* the issue tracker: issues created, per action item
    lastKnownCustomers, \* script property LAST_KNOWN_CUSTOMERS, as the array it holds
    inFlight,        \* executions of doPost between their duplicate check and their write
    lastOp           \* what the last executed entry point did and returned

sheets == <<recapSheet, calendarSheet, actionItemSheet, othersItemSheet>>
feeds == <<accountsCard, opptysReport, renewalOpps>>
tables == <<emailSheet, githubSheet, oppMappingSheet>>
layout == <<missingSheets, absentColumns>>
runtime == <<lastKnownCustomers, inFlight>>
vars == <<recapSheet, calendarSheet, actionItemSheet, othersItemSheet,
          accountsCard, opptysReport, renewalOpps, accountDataRaw,
          mappingSheet, emailSheet, githubSheet, oppMappingSheet,
          missingSheets, absentColumns, tracker, lastKnownCustomers, inFlight,
          lastOp>>

----------------------------------------------------------------------------
(* Bounds of the model *)

NumRecapIds == 2
SlotsPerDay == 3
MaxItems == 1

\* The most action items of a delivery where a batch of items is looked at
MaxBatch == 2

\* sheets that may be missing from the spreadsheet at a time
MaxMissing == 1

\* executions of doPost that may be running at a time
MaxInFlight == 2

----------------------------------------------------------------------------
(* Values *)

Empty == ""

RecapIdOf(n) == "ngmt_" \o ToString(n)
RecapIds == {RecapIdOf(n) : n \in 1..NumRecapIds}

Abs(x) == IF x < 0 THEN 0 - x ELSE x

RECURSIVE TrimStart(_)
TrimStart(s) ==
    IF s # <<>> /\ Head(s) = " " THEN TrimStart(Tail(s)) ELSE s

RECURSIVE TrimEnd(_)
TrimEnd(s) ==
    IF s # <<>> /\ s[Len(s)] = " " THEN TrimEnd(SubSeq(s, 1, Len(s) - 1)) ELSE s

\* String.prototype.trim on a title, a title being its sequence of characters
Trim(s) == TrimEnd(TrimStart(s))

\* `${getUTCFullYear()}-${getUTCMonth()+1}-${getUTCDate()}`: the UTC calendar
\* day of an instant; instants are counted in slots, SlotsPerDay to a day
UTCDateStr(t) == t \div SlotsPerDay

----------------------------------------------------------------------------
(* Domain mapper *)

\* String.prototype.toLowerCase on the domains used here
ToLowerCase(d) ==
    CASE d = "ObservePoint.com" -> "observepoint.com"
      [] d = "Acme.com" -> "acme.com"
      [] OTHER -> d

\* An address is the record of its local part and its domain ("local@domain");
\* the domain is returned lower-cased
getEmailDomainForAccount(email) == ToLowerCase(email.domain)

\* Map domain -> account id; a later row of the mapping sheet overwrites an
\* earlier one for the same domain.  Empty stands for "no entry".
RECURSIVE buildDomainToAccountMap(_, _)
buildDomainToAccountMap(rows, domain) ==
    IF rows = <<>> THEN Empty
    ELSE LET r == rows[Len(rows)]
         IN IF domain # Empty /\ domain \in {ToLowerCase(d) : d \in r.domains}
            THEN r.accountId
            ELSE buildDomainToAccountMap(SubSeq(rows, 1, Len(rows) - 1), domain)

findAccountByEmailCached(email, rows) ==
    LET domain == getEmailDomainForAccount(email)
    IN IF domain = Empty THEN Empty ELSE buildDomainToAccountMap(rows, domain)

\* [...new Set([...actual, ...invited])]: first occurrences, in order
RECURSIVE Dedupe(_)
Dedupe(s) ==
    IF s = <<>> THEN <<>>
    ELSE LET init == Dedupe(SubSeq(s, 1, Len(s) - 1))
             x == s[Len(s)]
         IN IF \E i \in 1..Len(init) : init[i] = x THEN init ELSE Append(init, x)

\* email.toLowerCase().includes('observepoint.com')
IsInternal(email) == ToLowerCase(email.domain) = "observepoint.com"

ExternalEmails(actual, invited) ==
    SelectSeq(Dedupe(actual \o invited), LAMBDA e : ~IsInternal(e))

\* the loop over externalEmails: the first address that resolves wins
RECURSIVE ResolveFirst(_, _)
ResolveFirst(emails, rows) ==
    IF emails = <<>> THEN Empty
    ELSE LET a == findAccountByEmailCached(Head(emails), rows)
         IN IF a # Empty THEN a ELSE ResolveFirst(Tail(emails), rows)

\* Extract the recap id from meetingInfo.meetingLink, a link being the
\* sequence of its path segments: the segment after "engagements", else the
\* last segment, else null (Empty)
extractMeetingRecapId(meetingLink) ==
    IF meetingLink = <<>> THEN Empty
    ELSE IF \E i \in 1..(Len(meetingLink) - 1) : meetingLink[i] = "engagements"
         THEN LET i == CHOOSE k \in 1..(Len(meetingLink) - 1) :
                          /\ meetingLink[k] = "engagements"
                          /\ \A j \in 1..(k - 1) : meetingLink[j] # "engagements"
              IN meetingLink[i + 1]
         ELSE meetingLink[Len(meetingLink)]

----------------------------------------------------------------------------
(* Recap <-> calendar matcher (matchMeetingRecapsToCalendarEvents) *)

\* The Calendar Events sheet carries the 'Account ID' and 'Meeting Recap ID'
\* columns (table relationships of the repository's documentation)
eventAccountIdIndex == TRUE
eventRecapIdIndex == TRUE
\* writeMeetingRecapToSheet always writes the 'Calendar Event ID' header
recapCalEventIdIndex == TRUE

\* the recaps array: one object per data row, rowIndex 1-indexed for the sheet
Recaps(recapData) ==
    [i \in 1..Len(recapData) |->
        [rowIndex |-> i + 1,
         recapId |-> recapData[i].meetingRecapId,
         title |-> recapData[i].meetingTitle,
         startTime |-> recapData[i].meetingDate,
         endTime |-> recapData[i].meetingEndTime,
         accountId |-> recapData[i].accountId]]

\* mutation of the events array: rows that already carry a Meeting Recap ID are
\* left out, as an incremental matcher would
EventsNotYetMatched(calendarData) ==
    SelectSeq([i \in 1..Len(calendarData) |->
                  [rowIndex |-> i + 1,
                   eventId |-> calendarData[i].eventId,
                   title |-> calendarData[i].title,
                   startTime |-> calendarData[i].startTime,
                   endTime |-> calendarData[i].endTime,
                   accountId |-> calendarData[i].accountId]],
              LAMBDA e : calendarData[e.rowIndex - 1].meetingRecapId = Empty)

\* the events array
Events(calendarData) ==
    [i \in 1..Len(calendarData) |->
        [rowIndex |-> i + 1,
         eventId |-> calendarData[i].eventId,
         title |-> calendarData[i].title,
         startTime |-> calendarData[i].startTime,
         endTime |-> calendarData[i].endTime,
         accountId |-> IF eventAccountIdIndex THEN calendarData[i].accountId ELSE Empty]]

\* mutation of the candidate filter: the account check left out
IsCandidateIgnoringAccount(recap, event) ==
    /\ Trim(event.title) = Trim(recap.title)
    /\ UTCDateStr(event.startTime) = UTCDateStr(recap.startTime)

\* mutation of the candidate filter: titles compared untrimmed
IsCandidateUntrimmed(recap, event) ==
    /\ event.title = recap.title
    /\ UTCDateStr(event.startTime) = UTCDateStr(recap.startTime)
    /\ ~(recap.accountId # Empty /\ event.accountId # Empty
         /\ recap.accountId # event.accountId)

\* the filter callback: exact trimmed title, same UTC day, no account conflict
IsCandidate(recap, event) ==
    /\ Trim(event.title) = Trim(recap.title)
    /\ UTCDateStr(event.startTime) = UTCDateStr(recap.startTime)
    /\ ~(recap.accountId # Empty /\ event.accountId # Empty
         /\ recap.accountId # event.accountId)

Candidates(recap, events) == SelectSeq(events, LAMBDA event : IsCandidate(recap, event))

\* mutation of the proximity measure: the difference of durations added
StartDiffWithDuration(recap, event) ==
    Abs(recap.startTime - event.startTime)
    + Abs((recap.endTime - recap.startTime) - (event.endTime - event.startTime))

\* Math.abs(recap.startTime - event.startTime)
StartDiff(recap, event) == Abs(recap.startTime - event.startTime)

\* mutation of the comparison: a later candidate wins a tie
IsSmallerOrEqual(startDiff, smallestStartDiff) ==
    smallestStartDiff = <<>> \/ startDiff <= smallestStartDiff[1]

\* startDiff < smallestStartDiff, smallestStartDiff being <<>> for Infinity
IsSmaller(startDiff, smallestStartDiff) ==
    smallestStartDiff = <<>> \/ startDiff < smallestStartDiff[1]

\* the loop over the candidates; bestMatch is <<>> for null, else <<event>>
RECURSIVE BestMatch(_, _, _, _)
BestMatch(recap, candidates, bestMatch, smallestStartDiff) ==
    IF candidates = <<>> THEN bestMatch
    ELSE LET event == Head(candidates)
             startDiff == StartDiff(recap, event)
         IN IF IsSmaller(startDiff, smallestStartDiff)
            THEN BestMatch(recap, Tail(candidates), <<event>>, <<startDiff>>)
            ELSE BestMatch(recap, Tail(candidates), bestMatch, smallestStartDiff)

\* the loop over the recaps: the matches array, in recap order
RECURSIVE FindMatches(_, _)
FindMatches(recaps, events) ==
    IF recaps = <<>> THEN <<>>
    ELSE LET recap == Head(recaps)
             best == BestMatch(recap, Candidates(recap, events), <<>>, <<>>)
             rest == FindMatches(Tail(recaps), events)
         IN IF best = <<>> THEN rest
            ELSE <<[recapId |-> recap.recapId,
                    recapRowIndex |-> recap.rowIndex,
                    eventId |-> best[1].eventId,
                    eventRowIndex |-> best[1].rowIndex,
                    timeDiff |-> StartDiff(recap, best[1])]>> \o rest

\* mutation of the clearing step: existing Calendar Event IDs are kept
ClearRecapMappingsKeep(recapData) == recapData

\* getRange(2, recapCalEventIdIndex + 1, length - 1, 1).clearContent()
ClearRecapMappings(recapData) ==
    IF recapCalEventIdIndex
    THEN [i \in 1..Len(recapData) |-> [recapData[i] EXCEPT !.calendarEventId = Empty]]
    ELSE recapData

\* getRange(2, eventRecapIdIndex + 1, length - 1, 1).clearContent()
ClearEventMappings(calendarData) ==
    IF eventRecapIdIndex
    THEN [i \in 1..Len(calendarData) |-> [calendarData[i] EXCEPT !.meetingRecapId = Empty]]
    ELSE calendarData

\* setValue(match.eventId) on the recap row of each match, in order
RECURSIVE WriteRecapMatches(_, _)
WriteRecapMatches(recapData, matches) ==
    IF matches = <<>> \/ ~recapCalEventIdIndex THEN recapData
    ELSE LET match == Head(matches)
         IN WriteRecapMatches(
                [recapData EXCEPT ![match.recapRowIndex - 1].calendarEventId = match.eventId],
                Tail(matches))

\* setValue(match.recapId) on the event row of each match, in order
RECURSIVE WriteEventMatches(_, _)
WriteEventMatches(calendarData, matches) ==
    IF matches = <<>> \/ ~eventRecapIdIndex THEN calendarData
    ELSE LET match == Head(matches)
         IN WriteEventMatches(
                [calendarData EXCEPT ![match.eventRowIndex - 1].meetingRecapId = match.recapId],
                Tail(matches))

\* What one run of the matcher leaves and returns.  The run returns early,
\* writing nothing, when either sheet has no data row.
matchMeetingRecapsToCalendarEvents(recapData, calendarData) ==
    IF recapData = <<>> \/ calendarData = <<>>
    THEN [recapSheet |-> recapData, calendarSheet |-> calendarData,
          success |-> TRUE, wrote |-> FALSE, matches |-> <<>>]
    ELSE LET matches == FindMatches(Recaps(recapData), Events(calendarData))
         IN [recapSheet |-> WriteRecapMatches(ClearRecapMappings(recapData), matches),
             calendarSheet |-> WriteEventMatches(ClearEventMappings(calendarData), matches),
             success |-> TRUE, wrote |-> TRUE, matches |-> matches]

----------------------------------------------------------------------------
(* Meeting recap webhook (doPost, processMeetingRecapWebhook) *)

\* mutation of the duplicate check: only the first data row is compared
isMeetingRecapDuplicateFirstRow(recapData, meetingRecapId) ==
    recapData # <<>> /\ recapData[1].meetingRecapId = meetingRecapId

\* mutation of the duplicate check: nothing is ever a duplicate
isMeetingRecapDuplicateNever(recapData, meetingRecapId) == FALSE

\* the scan of the 'Meeting Recap ID' column
isMeetingRecapDuplicate(recapData, meetingRecapId) ==
    \E i \in 1..Len(recapData) : recapData[i].meetingRecapId = meetingRecapId

\* the account id the flattened recap carries
flattenAccountId(payload, mappingRows) ==
    ResolveFirst(ExternalEmails(payload.actual, payload.invited), mappingRows)

\* mappedDomain: the domain of the first address that resolves, else ''
RECURSIVE MappedDomain(_, _)
MappedDomain(emails, rows) ==
    IF emails = <<>> THEN Empty
    ELSE IF findAccountByEmailCached(Head(emails), rows) # Empty
    THEN getEmailDomainForAccount(Head(emails))
    ELSE MappedDomain(Tail(emails), rows)

\* the row appended to 'Webhook Meeting Recaps'; the attendee cells hold the
\* addresses joined by ', ', which the fix script splits again
flattenWebhookMeetingRecap(payload, meetingRecapId, mappingRows) ==
    [meetingRecapId |-> meetingRecapId,
     meetingTitle |-> payload.title,
     meetingDate |-> payload.startTime,
     meetingEndTime |-> payload.endTime,
     actualAttendees |-> payload.actual,
     invitedAttendees |-> payload.invited,
     accountId |-> flattenAccountId(payload, mappingRows),
     mappedDomain |-> MappedDomain(ExternalEmails(payload.actual, payload.invited),
                                   mappingRows),
     calendarEventId |-> Empty]

writeMeetingRecapToSheet(recapData, recap) == Append(recapData, recap)

\* mutation: the items are numbered from the last to the first
writeMyActionItemsToSheetReversed(itemData, count, meetingRecapId) ==
    itemData \o [k \in 1..count |->
                    [meetingRecapId |-> meetingRecapId,
                     actionItemIndex |-> count - k,
                     githubIssueId |-> Empty]]

\* rows appended to 'Meeting Action Items', Action Item Index 0-based
writeMyActionItemsToSheet(itemData, count, meetingRecapId) ==
    itemData \o [k \in 1..count |->
                    [meetingRecapId |-> meetingRecapId,
                     actionItemIndex |-> k - 1,
                     githubIssueId |-> Empty]]

\* rows appended to 'Others Action Items'
writeOthersActionItemsToSheet(itemData, count, meetingRecapId) ==
    itemData \o [k \in 1..count |->
                    [meetingRecapId |-> meetingRecapId,
                     actionItemIndex |-> k - 1]]

IssueNodeId(row) == "I_" \o row.meetingRecapId \o "_" \o ToString(row.actionItemIndex)

\* the action item a row of 'Meeting Action Items' stands for
ItemKey(row) == <<row.meetingRecapId, row.actionItemIndex>>

ItemKeys == RecapIds \X (0..(MaxBatch - 1))

\* what the issue tracker does with one creation request: it creates the issue
\* and answers, it answers without an issue, or the call fails
ItemOutcomes == {"created", "notCreated", "error"}

\* mutation of the guard: an item with an issue id is submitted like any other
HasGitHubIssueIdNever(row) == FALSE

\* row[githubIdIndex] && row[githubIdIndex].toString().trim()
HasGitHubIssueId(row) == row.githubIssueId # Empty

\* mutation: a failed call is caught but not counted
SubmitItemUncounted(acc, i, row, answer) ==
    LET sent == [acc EXCEPT !.submitted = @ \cup {ItemKey(row)}]
    IN IF answer = "created"
       THEN [sent EXCEPT !.created = @ + 1,
                         !.tracker[ItemKey(row)] = @ + 1,
                         !.sheet[i].githubIssueId = IssueNodeId(row)]
       ELSE IF answer = "notCreated"
       THEN [sent EXCEPT !.skipped = @ + 1]
       ELSE sent

\* createIssueFromActionItemWebhook for the item of one row, and the write of
\* the issue id; acc carries the sheet, the tracker and the counters
SubmitItem(acc, i, row, answer) ==
    LET sent == [acc EXCEPT !.submitted = @ \cup {ItemKey(row)}]
    IN IF answer = "created"
       THEN [sent EXCEPT !.created = @ + 1,
                         !.tracker[ItemKey(row)] = @ + 1,
                         !.sheet[i].githubIssueId = IssueNodeId(row)]
       ELSE IF answer = "notCreated"
       THEN [sent EXCEPT !.skipped = @ + 1]
       ELSE [sent EXCEPT !.errors = @ + 1]

\* the loop over the rows of 'Meeting Action Items'; outcome[index] is what the
\* issue tracker answers for the recap's item of that index
RECURSIVE IssueLoop(_, _, _, _, _)
IssueLoop(itemData, i, meetingRecapId, outcome, acc) ==
    IF i > Len(itemData) THEN acc
    ELSE LET row == itemData[i]
         IN IF row.meetingRecapId # meetingRecapId
            THEN IssueLoop(itemData, i + 1, meetingRecapId, outcome, acc)
            ELSE IF HasGitHubIssueId(row)
            THEN IssueLoop(itemData, i + 1, meetingRecapId, outcome,
                           [acc EXCEPT !.skipped = @ + 1])
            ELSE IssueLoop(itemData, i + 1, meetingRecapId, outcome,
                           SubmitItem(acc, i, row, outcome[row.actionItemIndex]))

\* the result of a run that submitted nothing
IssueResult(itemData, issues, errors) ==
    [sheet |-> itemData, tracker |-> issues, submitted |-> {},
     created |-> 0, skipped |-> 0, errors |-> errors]

createGitHubIssuesFromActionItems(itemData, meetingRecapId, configOk, outcome, issues) ==
    IF itemData = <<>>
    THEN IssueResult(itemData, issues, 0)
    ELSE IF ~configOk
    THEN IssueResult(itemData, issues, 1)
    ELSE IssueLoop(itemData, 1, meetingRecapId, outcome, IssueResult(itemData, issues, 0))

\* the loop of createMissingGitHubIssuesFromActionItems over every row;
\* outcome[i] is what the issue tracker answers for the item of row i
RECURSIVE MissingIssueLoop(_, _, _, _)
MissingIssueLoop(itemData, i, outcome, acc) ==
    IF i > Len(itemData) THEN acc
    ELSE LET row == itemData[i]
         IN IF HasGitHubIssueId(row)
            THEN MissingIssueLoop(itemData, i + 1, outcome,
                                  [acc EXCEPT !.skipped = @ + 1])
            ELSE MissingIssueLoop(itemData, i + 1, outcome,
                                  SubmitItem(acc, i, row, outcome[i]))

NoOp ==
    [op |-> "none", delivered |-> <<>>, success |-> TRUE, action |-> Empty,
     meetingRecapId |-> Empty,
     matcherRan |-> FALSE, repeated |-> FALSE, wrote |-> FALSE, matches |-> <<>>,
     githubImportRan |-> FALSE, issuesRan |-> FALSE,
     created |-> 0, skipped |-> 0, errors |-> 0,
     submitted |-> {}, failed |-> {}, threw |-> FALSE,
     statusCode |-> 0, httpStatus |-> 0, fixed |-> 0, total |-> 0,
     input |-> <<>>, metrics |-> <<>>]

\* A run of createMissingGitHubIssuesFromActionItems the operator confirmed
createMissingGitHubIssuesFromActionItems(configOk, outcome) ==
    LET g == IF actionItemSheet = <<>> \/ ~configOk
             THEN IssueResult(actionItemSheet, tracker, 0)
             ELSE MissingIssueLoop(actionItemSheet, 1, outcome,
                                   IssueResult(actionItemSheet, tracker, 0))
    IN /\ actionItemSheet' = g.sheet
       /\ tracker' = g.tracker
       /\ lastOp' = [NoOp EXCEPT !.op = "createMissing",
                                 !.success = (actionItemSheet = <<>> \/ configOk),
                                 !.issuesRan = (actionItemSheet # <<>> /\ configOk),
                                 !.submitted = g.submitted,
                                 !.created = g.created, !.skipped = g.skipped,
                                 !.errors = g.errors]
       /\ UNCHANGED <<recapSheet, calendarSheet, othersItemSheet, feeds,
                      accountDataRaw, mappingSheet, tables, layout, runtime>>

\* a task of the GitHub project as processGitHubTasks lays it out
TaskRow(task) == [taskId |-> task.taskId, state |-> task.state, accountId |-> task.accountId]

\* importGitHubTasks: validate the configuration, fetch the project, clear and
\* rewrite 'GitHub Tasks'.  <<>> when validateGitHubConfig or the fetch throws.
importGitHubTasksResult(tasks, configOk, fetchFails) ==
    IF ~configOk \/ fetchFails THEN <<>>
    ELSE <<[i \in 1..Len(tasks) |-> TaskRow(tasks[i])]>>

\* The project defines getEmailDomain twice at top level, in the mapping file
\* and in the email import file; which of the two the calls reach depends on
\* the order in which the files are loaded.
DomainVariants == {"mapping", "import"}

\* getEmailDomain of an address, which a header gives bare (a@b) or with a
\* display name (Name <a@b>).  The definition of the mapping file takes all
\* that follows the '@', the closing bracket included; the one of the import
\* file takes the domain characters only.
getEmailDomain(email, variant) ==
    IF variant = "mapping" /\ email.display
    THEN ToLowerCase(email.domain) \o ">"
    ELSE ToLowerCase(email.domain)

\* findOpportunityByEmail: the opportunity of the first row of the mapping
\* sheet that lists the domain of the address, Empty for null
RECURSIVE findOpportunityByEmail(_, _, _)
findOpportunityByEmail(email, rows, variant) ==
    IF rows = <<>> THEN Empty
    ELSE IF getEmailDomain(email, variant) \in {ToLowerCase(d) : d \in Head(rows).domains}
    THEN Head(rows).opportunity
    ELSE findOpportunityByEmail(email, Tail(rows), variant)

\* for (const email of toEmails) { ...; if (opportunity) break; }
RECURSIVE FirstOpportunity(_, _, _)
FirstOpportunity(emails, rows, variant) ==
    IF emails = <<>> THEN Empty
    ELSE LET opportunity == findOpportunityByEmail(Head(emails), rows, variant)
         IN IF opportunity # Empty THEN opportunity
            ELSE FirstOpportunity(Tail(emails), rows, variant)

\* mutation of the order of trial: Cc before To before From
extractEmailDataCcFirst(message, rows, variant) ==
    LET byCc == FirstOpportunity(message.cc, rows, variant)
        byTo == FirstOpportunity(message.to, rows, variant)
        opportunity == IF byCc # Empty THEN byCc
                       ELSE IF byTo # Empty THEN byTo
                       ELSE findOpportunityByEmail(message.from, rows, variant)
    IN [messageId |-> message.messageId, from |-> message.from, to |-> message.to,
        cc |-> message.cc, opportunity |-> opportunity, accountId |-> Empty]

\* extractEmailData: From is tried, then the To addresses, then the Cc
\* addresses.  The row has no 'Account ID' cell.
extractEmailData(message, rows, variant) ==
    LET byFrom == findOpportunityByEmail(message.from, rows, variant)
        byTo == FirstOpportunity(message.to, rows, variant)
        opportunity == IF byFrom # Empty THEN byFrom
                       ELSE IF byTo # Empty THEN byTo
                       ELSE FirstOpportunity(message.cc, rows, variant)
    IN [messageId |-> message.messageId, from |-> message.from, to |-> message.to,
        cc |-> message.cc, opportunity |-> opportunity, accountId |-> Empty]

\* getOpportunityDomains
getOpportunityDomains(rows) ==
    UNION {{ToLowerCase(d) : d \in rows[i].domains} : i \in 1..Len(rows)}

\* emailData.from.includes(domain) || ... : a header of the message holds one
\* of the domains as written
hasMatchingDomain(emailData, domains) ==
    \E email \in {emailData.from} \cup {emailData.to[i] : i \in 1..Len(emailData.to)}
                    \cup {emailData.cc[i] : i \in 1..Len(emailData.cc)} :
        email.domain \in domains

\* fetchEmailsByDomains over the messages the search returns: each message id
\* once, kept if a header holds a mapped domain
RECURSIVE fetchEmailsByDomains(_, _, _, _)
fetchEmailsByDomains(messages, rows, variant, processedIds) ==
    IF messages = <<>> THEN <<>>
    ELSE LET message == Head(messages)
             emailData == extractEmailData(message, rows, variant)
             rest == fetchEmailsByDomains(Tail(messages), rows, variant,
                                          processedIds \cup {message.messageId})
         IN IF message.messageId \notin processedIds
               /\ hasMatchingDomain(emailData, getOpportunityDomains(rows))
            THEN <<emailData>> \o rest
            ELSE rest

\* mutation: every fetched email is appended, stored or not
writeEmailsToSheetAppendAll(emailData, emails) == emailData \o emails

\* writeEmailsToSheet: the emails whose message id the sheet does not hold
\* are appended
writeEmailsToSheet(emailData, emails) ==
    emailData \o SelectSeq(emails, LAMBDA email :
                    \A i \in 1..Len(emailData) : emailData[i].messageId # email.messageId)

\* importEmailsByDomain over the messages the mail search returns
importEmailsByDomain(messages, variant) ==
    LET domains == getOpportunityDomains(oppMappingSheet)
        emails == fetchEmailsByDomains(messages, oppMappingSheet, variant, {})
    IN /\ emailSheet' = IF domains = {} \/ emails = <<>> THEN emailSheet
                        ELSE writeEmailsToSheet(emailSheet, emails)
       /\ missingSheets' = IF domains = {} \/ emails = <<>> THEN missingSheets
                           ELSE missingSheets \ {"Email Communications"}
       /\ lastOp' = [NoOp EXCEPT !.op = "importEmailsByDomain",
                                 !.success = (domains # {}),
                                 !.total = Len(emails),
                                 !.input = <<[variant |-> variant]>>]
       /\ UNCHANGED <<sheets, feeds, accountDataRaw, mappingSheet, githubSheet,
                      oppMappingSheet, absentColumns, tracker, runtime>>

\* the menu entry: a failed import alerts and leaves the sheet as it was
importGitHubTasks(tasks, configOk, fetchFails) ==
    LET result == importGitHubTasksResult(tasks, configOk, fetchFails)
    IN /\ githubSheet' = IF result = <<>> THEN githubSheet ELSE result[1]
       /\ missingSheets' = IF result = <<>> THEN missingSheets
                           ELSE missingSheets \ {"GitHub Tasks"}
       /\ lastOp' = [NoOp EXCEPT !.op = "importGitHubTasks",
                                 !.success = (result # <<>>)]
       /\ UNCHANGED <<sheets, feeds, accountDataRaw, mappingSheet, emailSheet,
                      oppMappingSheet, absentColumns, tracker, runtime>>

\* where a run of the matcher may fail with an exception
MatcherFaults == {"none", "beforeRead", "afterClear"}

\* matchMeetingRecapsToCalendarEvents with its sheet lookups and its rethrow
MatcherRun(recapData, calendarData, missing, fault) ==
    LET unchanged == [recapSheet |-> recapData, calendarSheet |-> calendarData,
                      success |-> FALSE, wrote |-> FALSE, matches |-> <<>>,
                      threw |-> FALSE]
        m == matchMeetingRecapsToCalendarEvents(recapData, calendarData)
    IN IF "Webhook Meeting Recaps" \in missing \/ "Calendar Events" \in missing
       THEN unchanged
       ELSE IF fault = "beforeRead"
       THEN [unchanged EXCEPT !.threw = TRUE]
       ELSE IF fault = "afterClear" /\ m.wrote
       THEN [unchanged EXCEPT !.threw = TRUE,
                              !.recapSheet = ClearRecapMappings(recapData),
                              !.calendarSheet = ClearEventMappings(calendarData)]
       ELSE [recapSheet |-> m.recapSheet, calendarSheet |-> m.calendarSheet,
             success |-> m.success, wrote |-> m.wrote, matches |-> m.matches,
             threw |-> FALSE]

\* JSON.parse(e.postData.contents): <<payload>>, or <<>> when it throws
JSONParse(contents) == IF contents.wellFormed THEN <<contents.value>> ELSE <<>>

\* mutation of the response: the status code passed in becomes the HTTP status
createJsonResponseWithStatus(statusCode) == IF statusCode = 0 THEN 200 ELSE statusCode

\* createJsonResponse(data, statusCode): a ContentService text output, which
\* carries no status code; the HTTP status of the response is 200
createJsonResponse(statusCode) == 200

\* mutation of the follow-up steps: an exception of one of them reaches doPost
FollowUpFailsDelivery(failed) == failed # {}

\* try { ... } catch (error) { Logger.log(...) } around each follow-up step:
\* none of their exceptions leaves processMeetingRecapWebhook
FollowUpFails(failed) == FALSE

\* no follow-up step fails
NoFaults == [matcher |-> "none", githubImport |-> FALSE, issues |-> FALSE]

\* the response to a delivery that stored nothing
Rejected(e, statusCode) ==
    /\ lastOp' = [NoOp EXCEPT !.op = "doPost", !.success = FALSE,
                              !.delivered = IF JSONParse(e.contents) = <<>>
                                            THEN <<>>
                                            ELSE e.contents.value.meetingLink,
                              !.statusCode = statusCode,
                              !.httpStatus = createJsonResponse(statusCode)]
    /\ UNCHANGED <<sheets, feeds, accountDataRaw, mappingSheet, tables, layout, tracker, runtime>>

\* One webhook delivery, start to response.  e is the request, configOk tells
\* whether the GitHub configuration validates, outcome what the issue tracker
\* answers per item, faults which follow-up steps fail, tasks what the GitHub
\* project holds.
doPost(e, configOk, outcome, faults, tasks) ==
    IF JSONParse(e.contents) = <<>>
    THEN Rejected(e, 400)
    ELSE IF e.type # "meeting_recap"
    THEN Rejected(e, 400)
    ELSE LET payload == JSONParse(e.contents)[1]
             meetingRecapId == extractMeetingRecapId(payload.meetingLink)
    IN IF ~payload.meetingInfo \/ meetingRecapId = Empty
       THEN \* processMeetingRecapWebhook throws, doPost catches
            Rejected(e, 500)
       ELSE IF isMeetingRecapDuplicate(recapSheet, meetingRecapId)
       THEN /\ lastOp' = [NoOp EXCEPT !.op = "doPost", !.action = "skipped",
                                      !.delivered = payload.meetingLink,
                                      !.meetingRecapId = meetingRecapId,
                                      !.httpStatus = createJsonResponse(0)]
            /\ UNCHANGED <<sheets, feeds, accountDataRaw, mappingSheet, tables,
                           layout, tracker, runtime>>
       ELSE LET recap == flattenWebhookMeetingRecap(payload, meetingRecapId, mappingSheet)
                written == writeMeetingRecapToSheet(recapSheet, recap)
                myItems == writeMyActionItemsToSheet(actionItemSheet, payload.myItems,
                                                     meetingRecapId)
                others == writeOthersActionItemsToSheet(othersItemSheet,
                                                        payload.othersItems, meetingRecapId)
                created == {"Webhook Meeting Recaps"}
                              \cup (IF payload.myItems > 0
                                    THEN {"Meeting Action Items"} ELSE {})
                              \cup (IF payload.othersItems > 0
                                    THEN {"Others Action Items"} ELSE {})
                m == MatcherRun(written, calendarSheet, missingSheets \ created,
                                faults.matcher)
                t == importGitHubTasksResult(tasks, configOk, faults.githubImport)
                g == IF faults.issues
                     THEN IssueResult(myItems, tracker, 0)
                     ELSE createGitHubIssuesFromActionItems(myItems, meetingRecapId,
                                                            configOk, outcome, tracker)
            IN /\ recapSheet' = m.recapSheet
               /\ calendarSheet' = m.calendarSheet
               /\ actionItemSheet' = g.sheet
               /\ othersItemSheet' = others
               /\ githubSheet' = IF t = <<>> THEN githubSheet ELSE t[1]
               /\ missingSheets' = (missingSheets \ created)
                                      \ (IF t = <<>> THEN {} ELSE {"GitHub Tasks"})
               /\ tracker' = g.tracker
               /\ lastOp' =
                     LET failed == (IF m.threw THEN {"matcher"} ELSE {})
                                      \cup (IF t = <<>> THEN {"githubImport"} ELSE {})
                                      \cup (IF faults.issues THEN {"issues"} ELSE {})
                         escaped == FollowUpFails(failed)
                     IN [NoOp EXCEPT !.op = "doPost",
                                     !.success = ~escaped,
                                     !.action = IF escaped THEN Empty ELSE "created",
                                     !.delivered = payload.meetingLink,
                                     !.meetingRecapId = meetingRecapId,
                                     !.matcherRan = TRUE, !.wrote = m.wrote,
                                     !.matches = m.matches,
                                     !.githubImportRan = TRUE, !.issuesRan = TRUE,
                                     !.submitted = g.submitted,
                                     !.created = g.created, !.skipped = g.skipped,
                                     !.errors = g.errors,
                                     !.failed = failed,
                                     !.statusCode = IF escaped THEN 500 ELSE 0,
                                     !.httpStatus = createJsonResponse(
                                                        IF escaped THEN 500 ELSE 0)]
               /\ UNCHANGED <<feeds, accountDataRaw, mappingSheet, emailSheet,
                              oppMappingSheet, absentColumns, runtime>>

\* the row of a recap without account after the fix script has looked at it
FixedRow(row, mappingRows) ==
    LET externalEmails == ExternalEmails(row.actualAttendees, row.invitedAttendees)
        accountInfo == ResolveFirst(externalEmails, mappingRows)
    IN IF accountInfo = Empty THEN row
       ELSE [row EXCEPT !.accountId = accountInfo,
                        !.mappedDomain = MappedDomain(externalEmails, mappingRows)]

\* mutation of the guard: the fix script resolves every row again
HasAccountIdNever(row) == FALSE

\* accountId && accountId.toString().trim() !== '': the fix script skips the row
HasAccountId(row) == row.accountId # Empty

\* fixMissingAccountsInMeetingRecaps: every recap row without an account id is
\* resolved again against the mapping sheet as it is now
fixMissingAccountsInMeetingRecaps ==
    IF "Webhook Meeting Recaps" \in missingSheets
    THEN /\ lastOp' = [NoOp EXCEPT !.op = "fixMissingAccounts", !.success = FALSE,
                                   !.threw = TRUE]
         /\ UNCHANGED <<sheets, feeds, accountDataRaw, mappingSheet, tables, layout,
                        tracker, runtime>>
    ELSE LET fixedRows == [i \in 1..Len(recapSheet) |->
                              IF HasAccountId(recapSheet[i]) THEN recapSheet[i]
                              ELSE FixedRow(recapSheet[i], mappingSheet)]
         IN /\ recapSheet' = fixedRows
            /\ lastOp' = [NoOp EXCEPT
                  !.op = "fixMissingAccounts",
                  !.fixed = Cardinality({i \in 1..Len(recapSheet) :
                                            fixedRows[i] # recapSheet[i]}),
                  !.total = Cardinality({i \in 1..Len(recapSheet) :
                                            ~HasAccountId(recapSheet[i])})]
            /\ UNCHANGED <<calendarSheet, actionItemSheet, othersItemSheet, feeds,
                           accountDataRaw, mappingSheet, tables, layout, tracker, runtime>>

\* the operator enters an email domain in the 'Email Domains' cell of a row of
\* the account mapping sheet
enterEmailDomain(i, domain) ==
    /\ i \in 1..Len(mappingSheet)
    /\ domain \notin mappingSheet[i].domains
    /\ mappingSheet' = [mappingSheet EXCEPT ![i].domains = @ \cup {domain}]
    /\ lastOp' = [NoOp EXCEPT !.op = "enterEmailDomain"]
    /\ UNCHANGED <<sheets, feeds, accountDataRaw, tables, layout, tracker, runtime>>

\* A manual or triggered run of the matcher
RunMatcher ==
    LET m == MatcherRun(recapSheet, calendarSheet, missingSheets, "none")
    IN /\ recapSheet' = m.recapSheet
       /\ calendarSheet' = m.calendarSheet
       /\ lastOp' = [NoOp EXCEPT !.op = "match", !.matcherRan = TRUE,
                                 !.success = m.success,
                                 !.repeated = lastOp.matcherRan,
                                 !.wrote = m.wrote, !.matches = m.matches]
       /\ UNCHANGED <<actionItemSheet, othersItemSheet, feeds, accountDataRaw,
                      mappingSheet, tables, layout, tracker, runtime>>

\* importCalendarEvents: the sheet is cleared and rewritten from the events the
\* calendar returns; a freshly written row carries no Meeting Recap ID
importCalendarEvents(events) ==
    /\ calendarSheet' = [i \in 1..Len(events) |->
                            [events[i] EXCEPT !.meetingRecapId = Empty]]
    /\ missingSheets' = missingSheets \ {"Calendar Events"}
    /\ lastOp' = [NoOp EXCEPT !.op = "importCalendar"]
    /\ UNCHANGED <<recapSheet, actionItemSheet, othersItemSheet, feeds,
                   accountDataRaw, mappingSheet, tables, absentColumns, tracker, runtime>>

----------------------------------------------------------------------------
(* Account Data Raw rebuild (generateAccountDataRaw) *)

\* A 'Link to SF Opportunity' cell is <<>> when empty, <<"HYPERLINK", label>>
\* for a =HYPERLINK("url", "label") formula text, <<"TEXT", text>> for plain
\* text and <<"NUMBER">> for a value that is not a string.  null is Empty.
extractOpportunityNameFromLink(linkCell) ==
    IF linkCell = <<>> THEN Empty
    ELSE IF linkCell[1] = "NUMBER" THEN Empty
    ELSE linkCell[2]

\* Map opportunity name -> 'Link to SF Opportunity' cell, as the set of its keys
\* and a lookup; a later row overwrites an earlier one of the same name
RenewalNames(renewals) ==
    {extractOpportunityNameFromLink(renewals[i].link) : i \in 1..Len(renewals)} \ {Empty}

LastRenewalRow(renewals, oppName) ==
    LET rows == {i \in 1..Len(renewals) :
                    extractOpportunityNameFromLink(renewals[i].link) = oppName}
    IN renewals[CHOOSE i \in rows : \A k \in rows : k <= i]

\* mutation of the membership test: every resolved name counts as active
renewalOpportunityMapHasAny(renewals, oppName) == TRUE

\* renewalOpportunityMap.has(oppName)
renewalOpportunityMapHas(renewals, oppName) == oppName \in RenewalNames(renewals)

\* oppIdToNameMap.get(oppId): the name of the last row with that Id among the
\* rows that have an Id and a Name; Empty for undefined
RECURSIVE buildOppIdToNameMap(_, _)
buildOppIdToNameMap(opptys, oppId) ==
    IF opptys = <<>> THEN Empty
    ELSE LET row == opptys[Len(opptys)]
         IN IF row.Id # Empty /\ row.Name # Empty /\ row.Id = oppId
            THEN row.Name
            ELSE buildOppIdToNameMap(SubSeq(opptys, 1, Len(opptys) - 1), oppId)

\* accountId.startsWith('001') || ... : the value has the shape of a record id
\* of the CRM, not that of an account name
LooksLikeId(accountId) == accountId \in {"ACC1", "ACC2", "ACC3", "ACC4"}

\* githubByAccountMap.get(accountId) || []
buildGitHubByAccountMap(github, accountId) ==
    SelectSeq(github, LAMBDA row : row.accountId # Empty /\ row.accountId = accountId)

\* emailsByAccountMap.get(accountId) || []
buildEmailsByAccountMap(emails, accountId) ==
    SelectSeq(emails, LAMBDA row : /\ row.accountId # Empty
                                   /\ LooksLikeId(row.accountId)
                                   /\ row.accountId = accountId)

\* calendarByAccountMap.get(accountId) || []
buildCalendarByAccountMap(calendar, accountId) ==
    SelectSeq(calendar, LAMBDA row : row.accountId # Empty /\ row.accountId = accountId)

\* meetingRecapsByAccountMap.get(accountId) || []
buildMeetingRecapsByAccountMap(meetingRecaps, accountId) ==
    SelectSeq(meetingRecaps, LAMBDA row : /\ row.accountId # Empty
                                          /\ row.meetingRecapId # Empty
                                          /\ row.accountId = accountId)

\* recapIdToAccountId.get(recapId): the account of the last recap row with that
\* id among those that have an id and an account
RECURSIVE recapIdToAccountId(_, _)
recapIdToAccountId(recaps, recapId) ==
    IF recaps = <<>> THEN Empty
    ELSE LET row == recaps[Len(recaps)]
         IN IF row.meetingRecapId # Empty /\ row.accountId # Empty
               /\ row.meetingRecapId = recapId
            THEN row.accountId
            ELSE recapIdToAccountId(SubSeq(recaps, 1, Len(recaps) - 1), recapId)

\* actionItemsByAccountMap.get(accountId) || []; the recap sheet is read anew
buildActionItemsByAccountMap(actionItems, recaps, accountId) ==
    SelectSeq(actionItems, LAMBDA row :
        /\ row.meetingRecapId # Empty
        /\ recapIdToAccountId(recaps, row.meetingRecapId) # Empty
        /\ recapIdToAccountId(recaps, row.meetingRecapId) = accountId)

\* records.filter(r => { const d = r.date ? new Date(r.date) : null;
\*                       return d && d >= since }).length, a date being <<>> or <<t>>
CountSince(dates, since) ==
    Cardinality({i \in 1..Len(dates) : dates[i] # <<>> /\ dates[i][1] >= since})

\* meetings.filter(m => { ...; return d && d < now })
PastMeetings(startTimes, now) ==
    SelectSeq(startTimes, LAMBDA d : d # <<>> /\ d[1] < now)

\* the start of the most recent of the meetings, <<>> if there is none
LastStart(starts) ==
    IF starts = {} THEN <<>>
    ELSE <<CHOOSE t \in starts : \A u \in starts : u <= t>>

\* mutation of the recency band: a contact of the last week counts less than
\* one of the week before
RecencyPointsDipping(daysSinceLastContact) ==
    IF daysSinceLastContact = <<>> THEN 0
    ELSE LET days == daysSinceLastContact[1]
         IN IF days <= 7 THEN 30
            ELSE IF days <= 14 THEN 35
            ELSE IF days <= 30 THEN 25
            ELSE IF days <= 60 THEN 15
            ELSE IF days <= 90 THEN 8
            ELSE IF days <= 180 THEN 3
            ELSE 0

\* Recency: days since last contact
RecencyPoints(daysSinceLastContact) ==
    IF daysSinceLastContact = <<>> THEN 0
    ELSE LET days == daysSinceLastContact[1]
         IN IF days <= 7 THEN 40
            ELSE IF days <= 14 THEN 35
            ELSE IF days <= 30 THEN 25
            ELSE IF days <= 60 THEN 15
            ELSE IF days <= 90 THEN 8
            ELSE IF days <= 180 THEN 3
            ELSE 0

\* mutation of the email band: two points for an email, up to twenty
EmailPointsPerEmail(emails90d) == IF emails90d >= 10 THEN 20 ELSE 2 * emails90d

\* Email activity (90d)
EmailPoints(emails90d) ==
    IF emails90d >= 10 THEN 20
    ELSE IF emails90d >= 5 THEN 12
    ELSE IF emails90d >= 1 THEN 6
    ELSE 0

\* Meeting activity (30d)
MeetingPoints(meetings30d) ==
    IF meetings30d >= 3 THEN 20
    ELSE IF meetings30d >= 2 THEN 15
    ELSE IF meetings30d >= 1 THEN 10
    ELSE 0

\* Future meetings
FuturePoints(meetingsFuture) == IF meetingsFuture > 0 THEN 10 ELSE 0

\* Open GitHub tasks
TaskPoints(tasksOpen) ==
    IF tasksOpen >= 5 THEN 10
    ELSE IF tasksOpen >= 3 THEN 7
    ELSE IF tasksOpen >= 1 THEN 4
    ELSE 0

\* Math.min(100, score)
MathMin(a, b) == IF a <= b THEN a ELSE b

\* computeEngagementMetrics, now being the time of the call in slots; emails
\* come most recent first, as the by-account map has sorted them
computeEngagementMetrics(tasks, emails, meetings, meetingRecaps, actionItems, now) ==
    LET cutoff30d == now - 30 * SlotsPerDay
        cutoff90d == now - 90 * SlotsPerDay
        emailDates == [i \in 1..Len(emails) |-> emails[i].date]
        startTimes == [i \in 1..Len(meetings) |-> meetings[i].startTime]
        emails30d == CountSince(emailDates, cutoff30d)
        emails90d == CountSince(emailDates, cutoff90d)
        lastEmailDate == IF Len(emails) > 0 THEN emails[1].date ELSE <<>>
        pastMeetings == PastMeetings(startTimes, now)
        meetingsPast == Len(pastMeetings)
        meetingsFuture == CountSince(startTimes, now)
        meetings30d == CountSince(pastMeetings, cutoff30d)
        lastMeetingDate == LastStart({pastMeetings[i][1] : i \in 1..Len(pastMeetings)})
        tasksOpen == Cardinality({i \in 1..Len(tasks) : tasks[i].state = "OPEN"})
        tasksClosed == Cardinality({i \in 1..Len(tasks) : tasks[i].state = "CLOSED"})
        lastContactDate ==
            IF lastMeetingDate # <<>>
               /\ (lastEmailDate = <<>> \/ lastMeetingDate[1] > lastEmailDate[1])
            THEN lastMeetingDate
            ELSE lastEmailDate
        daysSinceLastContact ==
            IF lastContactDate = <<>> THEN <<>>
            ELSE <<(now - lastContactDate[1]) \div SlotsPerDay>>
        score == RecencyPoints(daysSinceLastContact) + EmailPoints(emails90d)
                    + MeetingPoints(meetings30d) + FuturePoints(meetingsFuture)
                    + TaskPoints(tasksOpen)
    IN [emailTotal |-> Len(emails), emails30d |-> emails30d, emails90d |-> emails90d,
        lastEmailDate |-> lastEmailDate,
        meetingsPast |-> meetingsPast, meetingsFuture |-> meetingsFuture,
        meetings30d |-> meetings30d, lastMeetingDate |-> lastMeetingDate,
        tasksTotal |-> Len(tasks), tasksOpen |-> tasksOpen, tasksClosed |-> tasksClosed,
        recapsCount |-> Len(meetingRecaps), actionItemsCount |-> Len(actionItems),
        daysSinceLastContact |-> daysSinceLastContact,
        engagementScore |-> MathMin(100, score)]

\* the metrics of the account whose records were drawn
computeMetricsOfAccount ==
    /\ lastOp.input # <<>>
    /\ lastOp.metrics = <<>>
    /\ lastOp' = [lastOp EXCEPT
          !.op = "computeEngagementMetrics",
          !.metrics = <<computeEngagementMetrics(
                            lastOp.input[1].tasks, lastOp.input[1].emails,
                            lastOp.input[1].meetings, <<>>, <<>>, lastOp.input[1].now)>>]
    /\ UNCHANGED <<sheets, feeds, accountDataRaw, mappingSheet, tables, layout, tracker, runtime>>

\* the row pushed for an included account; a name without renewal details
\* (renewalDetailMap.get(oppName) || {}) leaves the renewal cells empty
ConsolidatedRow(accountRow, oppName, sourceData) ==
    LET renewals == sourceData.renewals
        id == accountRow.Id
        renewal == IF oppName \in RenewalNames(renewals)
                   THEN LastRenewalRow(renewals, oppName)
                   ELSE [link |-> <<>>, renewalDate |-> <<>>, status |-> Empty]
    IN [accountName |-> accountRow.Name, link |-> renewal.link,
        renewalDate |-> renewal.renewalDate, status |-> renewal.status,
        tasksTotal |-> Len(buildGitHubByAccountMap(sourceData.github, id)),
        emailTotal |-> Len(buildEmailsByAccountMap(sourceData.emails, id)),
        meetingsTotal |-> Len(buildCalendarByAccountMap(sourceData.calendar, id)),
        recapsCount |-> Len(buildMeetingRecapsByAccountMap(sourceData.meetingRecaps, id)),
        actionItemsCount |-> Len(buildActionItemsByAccountMap(sourceData.actionItems,
                                                              sourceData.recapsAnew, id))]

\* the loop over the rows of Accounts Card Report, with its 'continue'
RECURSIVE AccountLoop(_, _)
AccountLoop(accounts, sourceData) ==
    IF accounts = <<>> THEN <<>>
    ELSE LET accountRow == Head(accounts)
             oppName == buildOppIdToNameMap(sourceData.opptys,
                                            accountRow.next_renewal_opportunity_id)
             rest == AccountLoop(Tail(accounts), sourceData)
         IN IF oppName = Empty \/ ~renewalOpportunityMapHas(sourceData.renewals, oppName)
            THEN rest
            ELSE <<ConsolidatedRow(accountRow, oppName, sourceData)>> \o rest

\* a[3] ? new Date(a[3]) : new Date('9999-12-31'), as a sort key: an undated
\* row sorts after every dated one
SortKey(row) == IF row.renewalDate = <<>> THEN <<1, 0>> ELSE <<0, row.renewalDate[1]>>

KeyLessOrEqual(a, b) == a[1] < b[1] \/ (a[1] = b[1] /\ a[2] <= b[2])

\* insertion of a row into a sorted sequence, after the rows of an equal key
RECURSIVE InsertSorted(_, _)
InsertSorted(sorted, row) ==
    IF sorted = <<>> THEN <<row>>
    ELSE IF KeyLessOrEqual(SortKey(Head(sorted)), SortKey(row))
         THEN <<Head(sorted)>> \o InsertSorted(Tail(sorted), row)
         ELSE <<row>> \o sorted

\* dataRows.sort((a, b) => dateA - dateB), a stable sort
RECURSIVE SortByRenewalDate(_)
SortByRenewalDate(rows) ==
    IF rows = <<>> THEN <<>>
    ELSE InsertSorted(SortByRenewalDate(SubSeq(rows, 1, Len(rows) - 1)), rows[Len(rows)])

buildConsolidatedData(sourceData) ==
    SortByRenewalDate(AccountLoop(sourceData.accounts, sourceData))

\* the empty value of a column that headers.indexOf does not find (row[-1])
Undefined(field) == IF field \in {"link", "renewalDate"} THEN <<>> ELSE Empty

\* getDataRange().getValues() of a report sheet, read through the headers the
\* sheet has: a column it lacks yields undefined in every row
ReadReport(rows, sheetName, absent) ==
    [i \in 1..Len(rows) |->
        [field \in DOMAIN rows[i] |->
            IF <<sheetName, field>> \in absent THEN Undefined(field) ELSE rows[i][field]]]

RequiredSheets == {"Accounts Card Report", "Opptys Report", "Renewal Opportunities"}

OptionalSheets == {"GitHub Tasks", "Email Communications", "Calendar Events",
                   "Webhook Meeting Recaps", "Meeting Action Items"}

\* mutation of the load: it throws for a missing optional sheet as well
AnySourceSheetMissing(missing) == (RequiredSheets \cup OptionalSheets) \cap missing # {}

\* if (!accountsSheet) throw ... for each of the three report sheets
RequiredSheetsMissing(missing) == RequiredSheets \cap missing # {}

\* a sheet's data rows, [[]] when the sheet does not exist
OptionalData(rows, sheetName, missing) == IF sheetName \in missing THEN <<>> ELSE rows

\* loadSourceData over the sheets given as a record; <<>> when it throws
loadSourceData(book, missing, absent) ==
    IF RequiredSheetsMissing(missing) THEN <<>>
    ELSE <<[accounts |-> ReadReport(book.accountsCard, "Accounts Card Report", absent),
            opptys |-> ReadReport(book.opptysReport, "Opptys Report", absent),
            renewals |-> ReadReport(book.renewalOpps, "Renewal Opportunities", absent),
            github |-> OptionalData(book.githubSheet, "GitHub Tasks", missing),
            emails |-> OptionalData(book.emailSheet, "Email Communications", missing),
            calendar |-> OptionalData(book.calendarSheet, "Calendar Events", missing),
            meetingRecaps |-> OptionalData(book.recapSheet, "Webhook Meeting Recaps",
                                           missing),
            actionItems |-> OptionalData(book.actionItemSheet, "Meeting Action Items",
                                         missing),
            recapsAnew |-> OptionalData(book.recapSheet, "Webhook Meeting Recaps",
                                        missing)]>>

\* the sheets of the spreadsheet that the rebuild reads
Book ==
    [accountsCard |-> accountsCard, opptysReport |-> opptysReport,
     renewalOpps |-> renewalOpps, githubSheet |-> githubSheet,
     emailSheet |-> emailSheet, calendarSheet |-> calendarSheet,
     recapSheet |-> recapSheet, actionItemSheet |-> actionItemSheet]

\* mutation of the rebuild: it also clears the cross-references of the
\* calendar sheet
generateAccountDataRawClearing ==
    LET sourceData == loadSourceData(Book, missingSheets, absentColumns)
    IN /\ sourceData # <<>>
       /\ accountDataRaw' = buildConsolidatedData(sourceData[1])
       /\ calendarSheet' = ClearEventMappings(calendarSheet)
       /\ missingSheets' = missingSheets \ {"Account Data Raw"}
       /\ lastOp' = [NoOp EXCEPT !.op = "generateAccountDataRaw"]
       /\ UNCHANGED <<recapSheet, actionItemSheet, othersItemSheet, feeds,
                      mappingSheet, tables, absentColumns, tracker, runtime>>

\* load, build, then clear and rewrite 'Account Data Raw'; an error of the
\* load is logged and thrown again, before anything is written
generateAccountDataRaw ==
    LET sourceData == loadSourceData(Book, missingSheets, absentColumns)
    IN IF sourceData = <<>>
       THEN /\ lastOp' = [NoOp EXCEPT !.op = "generateAccountDataRaw",
                                      !.success = FALSE, !.threw = TRUE]
            /\ UNCHANGED <<sheets, feeds, accountDataRaw, mappingSheet, tables,
                           layout, tracker, runtime>>
       ELSE /\ accountDataRaw' = buildConsolidatedData(sourceData[1])
            /\ missingSheets' = missingSheets \ {"Account Data Raw"}
            /\ lastOp' = [NoOp EXCEPT !.op = "generateAccountDataRaw"]
            /\ UNCHANGED <<sheets, feeds, mappingSheet, tables, absentColumns, tracker, runtime>>

\* the sheet an import configuration writes
SheetNameOf(configId) ==
    CASE configId = "renewal-opportunities" -> "Renewal Opportunities"
      [] configId = "opptys-report" -> "Opptys Report"
      [] configId = "accounts-card" -> "Accounts Card Report"

\* a manual import of one of the three report configurations: the sheet of
\* the configuration is created if need be, cleared and rewritten from the
\* parsed attachment, data being its rows and lacking the columns it lacks
importLatestCSVManual(configId, data, lacking) ==
    /\ accountsCard' = IF configId = "accounts-card" THEN data ELSE accountsCard
    /\ opptysReport' = IF configId = "opptys-report" THEN data ELSE opptysReport
    /\ renewalOpps' = IF configId = "renewal-opportunities" THEN data ELSE renewalOpps
    /\ missingSheets' = missingSheets \ {SheetNameOf(configId)}
    /\ absentColumns' = {c \in absentColumns : c[1] # SheetNameOf(configId)}
                           \cup {<<SheetNameOf(configId), field>> : field \in lacking}
    /\ lastOp' = [NoOp EXCEPT !.op = "importLatestCSVManual"]
    /\ UNCHANGED <<sheets, accountDataRaw, mappingSheet, tables, tracker, runtime>>

\* the operator deletes a sheet of the spreadsheet
deleteSheet(sheetName) ==
    /\ sheetName \notin missingSheets
    /\ missingSheets' = missingSheets \cup {sheetName}
    /\ accountsCard' = IF sheetName = "Accounts Card Report" THEN <<>> ELSE accountsCard
    /\ opptysReport' = IF sheetName = "Opptys Report" THEN <<>> ELSE opptysReport
    /\ renewalOpps' = IF sheetName = "Renewal Opportunities" THEN <<>> ELSE renewalOpps
    /\ githubSheet' = IF sheetName = "GitHub Tasks" THEN <<>> ELSE githubSheet
    /\ emailSheet' = IF sheetName = "Email Communications" THEN <<>> ELSE emailSheet
    /\ calendarSheet' = IF sheetName = "Calendar Events" THEN <<>> ELSE calendarSheet
    /\ recapSheet' = IF sheetName = "Webhook Meeting Recaps" THEN <<>> ELSE recapSheet
    /\ actionItemSheet' = IF sheetName = "Meeting Action Items" THEN <<>>
                          ELSE actionItemSheet
    /\ accountDataRaw' = IF sheetName = "Account Data Raw" THEN <<>> ELSE accountDataRaw
    /\ absentColumns' = {c \in absentColumns : c[1] # sheetName}
    /\ lastOp' = [NoOp EXCEPT !.op = "deleteSheet"]
    /\ UNCHANGED <<othersItemSheet, mappingSheet, oppMappingSheet, tracker, runtime>>

----------------------------------------------------------------------------
(* Inputs *)

amy == [local |-> "amy", domain |-> "ObservePoint.com"]
bob == [local |-> "bob", domain |-> "Acme.com"]
cat == [local |-> "cat", domain |-> "globex.com"]
dan == [local |-> "dan", domain |-> "nomap.org"]

\* the operator-maintained sheet of the email import: opportunity, domains
OpportunityMappingRows ==
    <<[opportunity |-> "2026 - REN - Acme", domains |-> {"acme.com"}],
      [opportunity |-> "2026 - REN - Globex", domains |-> {"globex.com", "acme.com"}]>>

\* the operator-maintained mapping sheet
MappingRows ==
    <<[accountId |-> "ACC1", accountName |-> "Acme", domains |-> {"acme.com"}],
      [accountId |-> "ACC2", accountName |-> "Globex", domains |-> {"Globex.com", "globex.com"}]>>

\* attendee lists: only internal (no account), resolved to ACC1, resolved to ACC2
AttendeeChoices ==
    {[actual |-> <<amy>>, invited |-> <<amy>>],
     [actual |-> <<amy, bob>>, invited |-> <<cat>>],
     [actual |-> <<dan>>, invited |-> <<dan, cat, bob>>]}

Payload(link, title, start, att, my, others) ==
    [meetingInfo |-> TRUE,
     meetingLink |-> link, title |-> title, startTime |-> start, endTime |-> start + 1,
     actual |-> att.actual, invited |-> att.invited,
     myItems |-> my, othersItems |-> others]

LinkOf(id) == <<"app", "engagements", id>>

\* deliveries that exercise the matcher: two titles, one of them padded, every
\* attendee list, no action items
MatchPayloads ==
    {Payload(LinkOf(id), title, 1, att, 0, 0) :
        id \in RecapIds, title \in {<<"S">>, <<"P", " ">>}, att \in AttendeeChoices}

\* deliveries that exercise ingestion: links with and without an id, action items
HookPayloads ==
    {Payload(link, <<"S">>, 1, att, my, others) :
        link \in {LinkOf(id) : id \in RecapIds} \cup {<<"app", RecapIdOf(1)>>, <<>>},
        att \in {a \in AttendeeChoices : a.actual # <<dan>>},
        my \in 0..MaxItems, others \in 0..MaxItems}

Event(id, title, start, end, account) ==
    [eventId |-> id, title |-> title, startTime |-> start, endTime |-> end,
     accountId |-> account, meetingRecapId |-> Empty]

\* the events of the calendar, in the order getEvents returns them
CalendarFeed ==
    <<Event("evt_1", <<"S">>, 0, 3, Empty),
      Event("evt_2", <<" ", "S", " ">>, 1, 2, "ACC2"),
      Event("evt_3", <<"P">>, 1, 2, "ACC1"),
      Event("evt_4", <<"S">>, 2, 3, "ACC1"),
      Event("evt_5", <<"S">>, SlotsPerDay, SlotsPerDay + 1, Empty)>>

RECURSIVE SubSequences(_)
SubSequences(s) ==
    IF s = <<>> THEN {<<>>}
    ELSE LET rest == SubSequences(Tail(s))
         IN rest \cup {<<Head(s)>> \o r : r \in rest}

\* what the calendar may hold at an import: any selection of the feed
Calendars == SubSequences(CalendarFeed)

HookCalendars == {<<>>, SubSeq(CalendarFeed, 1, 2)}

AccountRow(id, name, opp) == [Id |-> id, Name |-> name, next_renewal_opportunity_id |-> opp]

\* rows an Accounts Card Report export may carry; two of them share an
\* opportunity, one has none
AccountRows ==
    <<AccountRow("ACC1", "Acme", "OPP1"),
      AccountRow("ACC2", "Globex", "OPP2"),
      AccountRow("ACC3", "Initech", Empty),
      AccountRow("ACC4", "Umbrella", "OPP1")>>

\* rows an Opptys Report export may carry; an Id may recur, a Name may be empty
OpptyRows ==
    <<[Id |-> "OPP1", Name |-> "2026 - REN - Acme"],
      [Id |-> "OPP2", Name |-> "2026 - REN - Globex"],
      [Id |-> "OPP1", Name |-> "2025 - REN - Acme"],
      [Id |-> "OPP2", Name |-> Empty]>>

RenewalRow(link, date) == [link |-> link, renewalDate |-> date, status |-> "Open"]

\* rows a Renewal Opportunities export may carry
RenewalRows ==
    <<RenewalRow(<<"HYPERLINK", "2026 - REN - Acme">>, <<2>>),
      RenewalRow(<<"TEXT", "2026 - REN - Globex">>, <<1>>),
      RenewalRow(<<"TEXT", "2025 - REN - Acme">>, <<>>),
      RenewalRow(<<"NUMBER">>, <<1>>)>>

\* the items of the GitHub project: one carries an account, one does not
GitHubProject ==
    <<[taskId |-> "T1", state |-> "OPEN", accountId |-> "ACC1"],
      [taskId |-> "T2", state |-> "CLOSED", accountId |-> Empty]>>

\* a delivery of the first recap id, resolved to ACC1, with the most action items
LoadPayloads ==
    {Payload(LinkOf(RecapIdOf(1)), <<"S">>, 1, [actual |-> <<amy, bob>>, invited |-> <<cat>>],
             MaxItems, 0)}

\* deliveries of either recap id with the most action items, and one without
\* a recap id in its link
FaultPayloads ==
    {Payload(link, <<"S">>, 1, [actual |-> <<amy, bob>>, invited |-> <<cat>>],
             MaxItems, others) :
        link \in {LinkOf(id) : id \in RecapIds} \cup {<<>>}, others \in 0..MaxItems}

\* requests the endpoint may receive: well-formed ones, a body that is not
\* JSON, a type other than meeting_recap, a body without meetingInfo
HookRequests ==
    {[type |-> "meeting_recap", contents |-> [wellFormed |-> TRUE, value |-> payload]] :
        payload \in FaultPayloads}
    \cup {[type |-> type, contents |-> [wellFormed |-> wellFormed,
                                        value |-> [payload EXCEPT !.meetingInfo = info]]] :
            type \in {"meeting_recap", "unknown"}, wellFormed \in BOOLEAN,
            info \in BOOLEAN,
            payload \in {q \in FaultPayloads : q.meetingLink = LinkOf(RecapIdOf(1))
                                               /\ q.othersItems = 0}}

\* which follow-up steps of a delivery fail
FaultChoices ==
    {[matcher |-> matcher, githubImport |-> githubImport, issues |-> issues] :
        matcher \in MatcherFaults, githubImport \in BOOLEAN, issues \in BOOLEAN}

\* deliveries whose only external attendee is at a domain that the mapping
\* sheet does not hold at first, and deliveries that resolve at once
FixPayloads ==
    {Payload(LinkOf(id), <<"S">>, 1, att, 0, 0) :
        id \in RecapIds,
        att \in {[actual |-> <<amy, dan>>, invited |-> <<dan>>],
                 [actual |-> <<amy, bob>>, invited |-> <<cat>>]}}

\* the time of a rebuild, in slots
Today == 200 * SlotsPerDay + 1

\* the time that lies the given days and slots before the rebuild
Ago(days, slots) == <<Today - days * SlotsPerDay - slots>>

\* n records of one field, all of the same value
Repeat(n, record) == [i \in 1..n |-> record]

\* the emails of an account: none, or one, five or ten of one date
EmailLists ==
    {<<>>} \cup {Repeat(n, [date |-> date]) :
                    n \in {1, 5, 10},
                    date \in {Ago(8, 0), Ago(90, 0), Ago(90, 1), Ago(181, 0), <<>>}}

\* the day counts on either side of each recency threshold
RecencyEdges == {0, 7, 8, 14, 15, 30, 31, 60, 61, 90, 91, 180, 181}

\* the meetings of an account: up to three past ones of one start, with or
\* without a future one
MeetingLists ==
    {Repeat(n, [startTime |-> start]) \o Repeat(future, [startTime |-> <<Today>>]) :
        n \in 1..3,
        start \in {Ago(days, 1) : days \in RecencyEdges} \cup {Ago(30, 0), <<>>},
        future \in 0..1}
    \cup {<<>>, <<[startTime |-> <<Today + 1>>]>>}

\* the tasks of an account: open ones and a closed one
TaskLists ==
    {Repeat(n, [state |-> "OPEN"]) \o <<[state |-> "CLOSED"]>> : n \in {0, 1, 3, 5}}

\* the records of one account at a rebuild
ScoreInputs ==
    {[tasks |-> tasks, emails |-> emails, meetings |-> meetings, now |-> Today] :
        tasks \in TaskLists, emails \in EmailLists, meetings \in MeetingLists}

\* an address as a mail header gives it
Address(person, display) ==
    [local |-> person.local, domain |-> person.domain, display |-> display]

\* the messages of the mailbox: the sender resolves, and so does a To
\* address, to another opportunity; the sender does not resolve and a later
\* To address does; only a Cc address resolves unless the To address, written
\* with a display name, does
Mailbox ==
    <<[messageId |-> "m1", from |-> Address(cat, FALSE),
       to |-> <<Address(amy, FALSE), Address(bob, FALSE)>>, cc |-> <<>>],
      [messageId |-> "m2", from |-> Address(amy, TRUE),
       to |-> <<Address(dan, FALSE), Address(bob, FALSE), Address(cat, FALSE)>>,
       cc |-> <<Address(cat, FALSE)>>],
      [messageId |-> "m3", from |-> Address(amy, FALSE),
       to |-> <<Address(cat, TRUE)>>,
       cc |-> <<Address(dan, FALSE), Address(bob, FALSE)>>]>>

\* what a mail search may return: a message alone, or every message with the
\* first of them twice
SearchResults ==
    {<<Mailbox[i]>> : i \in 1..Len(Mailbox)} \cup {Mailbox \o <<Mailbox[1]>>}

\* deliveries of every attendee list
ResolvePayloads ==
    {Payload(LinkOf(id), <<"S">>, 1, att, 0, 0) :
        id \in RecapIds,
        att \in {a \in AttendeeChoices : a.actual # <<amy>>}
                   \cup {[actual |-> <<amy, dan>>, invited |-> <<dan>>]}}

----------------------------------------------------------------------------
(* Specifications *)

Init ==
    /\ recapSheet = <<>>
    /\ calendarSheet = <<>>
    /\ actionItemSheet = <<>>
    /\ othersItemSheet = <<>>
    /\ accountsCard = <<>>
    /\ opptysReport = <<>>
    /\ renewalOpps = <<>>
    /\ accountDataRaw = <<>>
    /\ mappingSheet = MappingRows
    /\ emailSheet = <<>>
    /\ githubSheet = <<>>
    /\ oppMappingSheet = OpportunityMappingRows
    /\ missingSheets = {}
    /\ absentColumns = {}
    /\ tracker = [k \in ItemKeys |-> 0]
    /\ lastKnownCustomers = <<>>
    /\ inFlight = <<>>
    /\ lastOp = NoOp

\* a well-formed request of type meeting_recap carrying the payload
Request(payload) ==
    [type |-> "meeting_recap", contents |-> [wellFormed |-> TRUE, value |-> payload]]

Deliver(payloads, configs) ==
    \E payload \in payloads, configOk \in configs :
        \E outcome \in [0..(payload.myItems - 1) -> ItemOutcomes] :
            doPost(Request(payload), configOk, outcome, NoFaults, <<>>)

ImportCalendar(calendars) == \E events \in calendars : importCalendarEvents(events)

\* ingestion: webhook deliveries with action items, over a small calendar
Next == Deliver(HookPayloads, BOOLEAN) \/ RunMatcher \/ ImportCalendar(HookCalendars)

Spec == Init /\ [][Next]_vars

\* matching: deliveries without action items, over every selection of the feed
NextMatch == Deliver(MatchPayloads, {TRUE}) \/ RunMatcher \/ ImportCalendar(Calendars)

SpecMatch == Init /\ [][NextMatch]_vars

\* rebuilds of Account Data Raw over changing report exports
NextView ==
    \/ \E data \in SubSequences(AccountRows) : importLatestCSVManual("accounts-card", data, {})
    \/ \E data \in SubSequences(OpptyRows) : importLatestCSVManual("opptys-report", data, {})
    \/ \E data \in SubSequences(RenewalRows) : importLatestCSVManual("renewal-opportunities", data, {})
    \/ generateAccountDataRaw

SpecView == Init /\ [][NextView]_vars

\* rebuilds over a spreadsheet whose sheets come and go and whose report
\* exports may lack a column
NextLoad ==
    \/ \E lacking \in {{}, {"next_renewal_opportunity_id"}} :
          /\ lacking # {} => absentColumns = {}
          /\ importLatestCSVManual("accounts-card", SubSeq(AccountRows, 1, 2), lacking)
    \/ \E lacking \in {{}, {"Name"}} :
          /\ lacking # {} => absentColumns = {}
          /\ importLatestCSVManual("opptys-report", SubSeq(OpptyRows, 1, 2), lacking)
    \/ \E lacking \in {{}, {"link"}} :
          /\ lacking # {} => absentColumns = {}
          /\ importLatestCSVManual("renewal-opportunities", SubSeq(RenewalRows, 1, 2),
                                   lacking)
    \/ importGitHubTasks(GitHubProject, TRUE, FALSE)
    \/ ImportCalendar({SubSeq(CalendarFeed, 3, 4)})
    \/ Len(actionItemSheet) < MaxItems /\ Deliver(LoadPayloads, {FALSE})
    \/ \E sheetName \in RequiredSheets \cup OptionalSheets \cup {"Account Data Raw"} :
          /\ Cardinality(missingSheets) < MaxMissing
          /\ deleteSheet(sheetName)
    \/ generateAccountDataRaw

SpecLoad == Init /\ [][NextLoad]_vars

\* recaps stored without account, a mapping sheet that gains a domain, and
\* the operations that run over stored recap rows
NextFix ==
    \/ Deliver(FixPayloads, {TRUE})
    \/ \E i \in 1..Len(mappingSheet) : enterEmailDomain(i, "nomap.org")
    \/ fixMissingAccountsInMeetingRecaps
    \/ RunMatcher
    \/ ImportCalendar({SubSeq(CalendarFeed, 1, 2), SubSeq(CalendarFeed, 4, 4)})
    \/ \E data \in {SubSeq(AccountRows, 1, 2)} :
          importLatestCSVManual("accounts-card", data, {})
    \/ generateAccountDataRaw

SpecFix == Init /\ [][NextFix]_vars

\* the engagement metrics of one account, for every choice of its records
InitScore ==
    /\ recapSheet = <<>>
    /\ calendarSheet = <<>>
    /\ actionItemSheet = <<>>
    /\ othersItemSheet = <<>>
    /\ accountsCard = <<>>
    /\ opptysReport = <<>>
    /\ renewalOpps = <<>>
    /\ accountDataRaw = <<>>
    /\ mappingSheet = MappingRows
    /\ emailSheet = <<>>
    /\ githubSheet = <<>>
    /\ oppMappingSheet = OpportunityMappingRows
    /\ missingSheets = {}
    /\ absentColumns = {}
    /\ tracker = [k \in ItemKeys |-> 0]
    /\ lastKnownCustomers = <<>>
    /\ inFlight = <<>>
    /\ \E input \in ScoreInputs : lastOp = [NoOp EXCEPT !.input = <<input>>]

NextScore == computeMetricsOfAccount

SpecScore == InitScore /\ [][NextScore]_vars

\* records with several addresses: imported emails, delivered recaps, and
\* recaps resolved again by the fix script
NextResolve ==
    \/ \E messages \in SearchResults, variant \in DomainVariants :
          importEmailsByDomain(messages, variant)
    \/ Deliver(ResolvePayloads, {TRUE})
    \/ enterEmailDomain(1, "nomap.org")
    \/ fixMissingAccountsInMeetingRecaps

SpecResolve == Init /\ [][NextResolve]_vars

\* deliveries of any request with failing follow-up steps, and operator runs
\* of the issue creation for items that have none
NextHook ==
    \/ \E e \in HookRequests, configOk \in BOOLEAN, faults \in FaultChoices :
          \E outcome \in [0..(MaxItems - 1) -> ItemOutcomes] :
              doPost(e, configOk, outcome, faults, GitHubProject)
    \/ \E configOk \in BOOLEAN :
          \E outcome \in [1..Len(actionItemSheet) -> ItemOutcomes] :
              createMissingGitHubIssuesFromActionItems(configOk, outcome)
    \/ ImportCalendar({SubSeq(CalendarFeed, 1, 2)})

SpecHook == Init /\ [][NextHook]_vars

----------------------------------------------------------------------------
(* Properties of the webhook ingestion *)

RowCount(recapData, id) ==
    Cardinality({i \in 1..Len(recapData) : recapData[i].meetingRecapId = id})

\* C1: over sequential webhook deliveries the recap sheet holds one row per
\* recap id: a delivery of an id not yet stored appends exactly one row and
\* answers "created"; a delivery of a stored id answers "skipped", never an
\* error, and leaves the recap sheet as it was.
C1_OneRowPerRecapId ==
    [][lastOp'.op = "doPost" /\ extractMeetingRecapId(lastOp'.delivered) # Empty =>
        LET id == extractMeetingRecapId(lastOp'.delivered)
        IN /\ lastOp'.success
           /\ lastOp'.meetingRecapId = id
           /\ \A r \in RecapIds : RowCount(recapSheet', r) <= 1
           /\ RowCount(recapSheet', id) = 1
           /\ RowCount(recapSheet, id) = 0 =>
                 /\ lastOp'.action = "created"
                 /\ Len(recapSheet') = Len(recapSheet) + 1
           /\ RowCount(recapSheet, id) > 0 =>
                 /\ lastOp'.action = "skipped"
                 /\ Len(recapSheet') = Len(recapSheet)]_vars

\* a second delivery of the second stored id was answered "skipped"
C1_Witness ==
    /\ lastOp.op = "doPost"
    /\ lastOp.action = "skipped"
    /\ Len(recapSheet) = 2
    /\ recapSheet[2].meetingRecapId = lastOp.meetingRecapId
    /\ RowCount(recapSheet, lastOp.meetingRecapId) = 1

\* C8: a delivery of an already stored recap id writes nothing to any sheet
\* and runs neither the matcher nor the GitHub import nor issue creation.
C8_DuplicateIsNoOp ==
    [][(/\ lastOp'.op = "doPost"
        /\ RowCount(recapSheet, extractMeetingRecapId(lastOp'.delivered)) > 0) =>
        /\ UNCHANGED <<recapSheet, calendarSheet, actionItemSheet, othersItemSheet,
                       accountsCard, opptysReport, renewalOpps, accountDataRaw,
                       mappingSheet, emailSheet, githubSheet, oppMappingSheet,
                       missingSheets, absentColumns, tracker, runtime>>
        /\ ~lastOp'.matcherRan
        /\ ~lastOp'.githubImportRan
        /\ ~lastOp'.issuesRan
        /\ lastOp'.created = 0]_vars

\* a duplicate was delivered while a matcher run would have written a match and
\* issue creation would have found an item of that recap without an issue
C8_Witness ==
    /\ lastOp.op = "doPost"
    /\ lastOp.action = "skipped"
    /\ \E i \in 1..Len(actionItemSheet) :
          /\ actionItemSheet[i].meetingRecapId = lastOp.meetingRecapId
          /\ actionItemSheet[i].githubIssueId = Empty
    /\ \E i \in 1..Len(othersItemSheet) :
          othersItemSheet[i].meetingRecapId = lastOp.meetingRecapId
    /\ matchMeetingRecapsToCalendarEvents(recapSheet, calendarSheet).recapSheet # recapSheet

----------------------------------------------------------------------------
(* Properties of the matcher *)

RecapRowOf(match) == recapSheet[match.recapRowIndex - 1]
EventRowOf(match) == calendarSheet[match.eventRowIndex - 1]
MatchSet == {lastOp.matches[k] : k \in 1..Len(lastOp.matches)}

\* C2: after a completed matcher run a recap row names an event exactly when
\* that event row names the recap.
C2_TwoSided ==
    lastOp.matcherRan =>
        \A i \in 1..Len(recapSheet), j \in 1..Len(calendarSheet) :
            (recapSheet[i].calendarEventId = calendarSheet[j].eventId)
            <=> (calendarSheet[j].meetingRecapId = recapSheet[i].meetingRecapId)

\* C3: in the match set of a run no recap occurs twice and no event occurs
\* twice.
C3_OneToOne ==
    lastOp.matcherRan =>
        \A a, b \in 1..Len(lastOp.matches) :
            a # b => /\ lastOp.matches[a].recapId # lastOp.matches[b].recapId
                     /\ lastOp.matches[a].eventId # lastOp.matches[b].eventId

\* C4: after a matcher run the only cross-references present, on either sheet,
\* are those of the match set computed in that run.
C4_FullRecompute ==
    lastOp.matcherRan =>
        /\ \A i \in 1..Len(recapSheet) :
              recapSheet[i].calendarEventId # Empty =>
                  \E m \in MatchSet : /\ m.recapId = recapSheet[i].meetingRecapId
                                      /\ m.eventId = recapSheet[i].calendarEventId
        /\ \A j \in 1..Len(calendarSheet) :
              calendarSheet[j].meetingRecapId # Empty =>
                  \E m \in MatchSet : /\ m.eventId = calendarSheet[j].eventId
                                      /\ m.recapId = calendarSheet[j].meetingRecapId

\* C5: a matcher run that directly follows a matcher run (manual, or the one a
\* delivery made) leaves both sheets as they are and returns the same match set.
C5_Idempotent ==
    [][(lastOp.matcherRan /\ lastOp'.op = "match") =>
        /\ recapSheet' = recapSheet
        /\ calendarSheet' = calendarSheet
        /\ lastOp'.matches = lastOp.matches]_vars

\* a second run in a row, with a match to preserve
C5_Witness ==
    /\ lastOp.op = "match"
    /\ lastOp.repeated
    /\ lastOp.matches # <<>>

AccountConflict(recapRow, eventRow) ==
    /\ recapRow.accountId # Empty
    /\ eventRow.accountId # Empty
    /\ recapRow.accountId # eventRow.accountId

SameTitleAndDay(recapRow, eventRow) ==
    /\ Trim(eventRow.title) = Trim(recapRow.meetingTitle)
    /\ eventRow.startTime \div SlotsPerDay = recapRow.meetingDate \div SlotsPerDay

CandidateRows(i) ==
    {j \in 1..Len(calendarSheet) :
        /\ SameTitleAndDay(recapSheet[i], calendarSheet[j])
        /\ ~AccountConflict(recapSheet[i], calendarSheet[j])}

Distance(i, j) == Abs(recapSheet[i].meetingDate - calendarSheet[j].startTime)

\* the nearest candidates of recap row i by start time
NearestRows(i) ==
    {j \in CandidateRows(i) : \A k \in CandidateRows(i) : Distance(i, j) <= Distance(i, k)}

FirstRow(rows) == CHOOSE j \in rows : \A k \in rows : j <= k

MatchesOfRow(i) == {m \in MatchSet : m.recapRowIndex = i + 1}

\* C7: a recap with no candidate gets no match and the run still succeeds; a
\* recap with candidates is matched to the candidate nearest in start time, the
\* first in sheet order among equally near ones, whatever the end times are.
C7_NearestStartWins ==
    lastOp.matcherRan =>
        /\ lastOp.success
        /\ \A i \in 1..Len(recapSheet) :
              IF CandidateRows(i) = {}
              THEN /\ MatchesOfRow(i) = {}
                   /\ recapSheet[i].calendarEventId = Empty \/ ~lastOp.wrote
              ELSE /\ Cardinality(MatchesOfRow(i)) = 1
                   /\ \A m \in MatchesOfRow(i) :
                         /\ m.eventRowIndex = FirstRow(NearestRows(i)) + 1
                         /\ m.recapId = recapSheet[i].meetingRecapId
                         /\ m.eventId = calendarSheet[FirstRow(NearestRows(i))].eventId
                   /\ recapSheet[i].calendarEventId
                         = calendarSheet[FirstRow(NearestRows(i))].eventId

\* one recap tied between an earlier and a later candidate of different
\* durations took the earlier; another recap had no candidate at all
C7_Witness ==
    /\ lastOp.matcherRan
    /\ \E i \in 1..Len(recapSheet) :
          \E j, k \in NearestRows(i) :
              /\ j < k
              /\ calendarSheet[j].endTime - calendarSheet[j].startTime
                    # calendarSheet[k].endTime - calendarSheet[k].startTime
              /\ recapSheet[i].calendarEventId = calendarSheet[j].eventId
    /\ \E i \in 1..Len(recapSheet) :
          CandidateRows(i) = {} /\ recapSheet[i].calendarEventId = Empty

----------------------------------------------------------------------------
(* Properties of the Account Data Raw rebuild *)

\* the rows of Opptys Report that give an opportunity id a name
NamingRows(oppId) ==
    {i \in 1..Len(opptysReport) :
        /\ opptysReport[i].Id = oppId
        /\ opptysReport[i].Id # Empty
        /\ opptysReport[i].Name # Empty}

\* the names listed by Renewal Opportunities
ActiveSet ==
    {renewalOpps[i].link[2] : i \in {k \in 1..Len(renewalOpps) :
        renewalOpps[k].link # <<>> /\ renewalOpps[k].link[1] \in {"HYPERLINK", "TEXT"}}}

\* the account of row i of Accounts Card Report passes both joins
PassesBothJoins(i) ==
    LET rows == NamingRows(accountsCard[i].next_renewal_opportunity_id)
    IN /\ rows # {}
       /\ opptysReport[CHOOSE r \in rows : \A k \in rows : k <= r].Name \in ActiveSet

ViewRowsOf(name) == {k \in 1..Len(accountDataRaw) : accountDataRaw[k].accountName = name}

C10_AllAccountsShown ==
    lastOp.op = "generateAccountDataRaw" =>
        /\ \A i \in 1..Len(accountsCard) :
              /\ ViewRowsOf(accountsCard[i].Name) # {}
              /\ ~PassesBothJoins(i) =>
                    \A k \in ViewRowsOf(accountsCard[i].Name) :
                        accountDataRaw[k].status = "Inactive"
        /\ \A k, l \in 1..Len(accountDataRaw) :
              (accountDataRaw[k].status # "Inactive" /\ accountDataRaw[l].status = "Inactive")
                 => k < l

----------------------------------------------------------------------------
(* Properties of the rebuild over a changing spreadsheet *)

\* C11: a rebuild writes Account Data Raw only: the recap, calendar, action
\* item, email, GitHub Tasks, report and mapping sheets, the columns the
\* sheets have and the issue tracker are after the rebuild what they were
\* before it, and no sheet other than Account Data Raw comes into being.
C11_RebuildWritesViewOnly ==
    [][lastOp'.op = "generateAccountDataRaw" =>
        /\ UNCHANGED <<recapSheet, calendarSheet, actionItemSheet, othersItemSheet,
                       accountsCard, opptysReport, renewalOpps, mappingSheet,
                       emailSheet, githubSheet, oppMappingSheet, absentColumns,
                       tracker, runtime>>
        /\ missingSheets' \ {"Account Data Raw"} = missingSheets \ {"Account Data Raw"}]_vars

\* a rebuild has re-created the view and filled it from a matched calendar
\* event, a recap, an action item and a task
C11_Witness ==
    /\ lastOp.op = "generateAccountDataRaw"
    /\ ~lastOp.threw
    /\ "Account Data Raw" \notin missingSheets
    /\ \E i \in 1..Len(accountDataRaw) :
          /\ accountDataRaw[i].recapsCount = 1
          /\ accountDataRaw[i].meetingsTotal >= 1
          /\ accountDataRaw[i].tasksTotal = 1
          /\ accountDataRaw[i].actionItemsCount = MaxItems
    /\ \E j \in 1..Len(calendarSheet) : calendarSheet[j].meetingRecapId # Empty
----------------------------------------------------------------------------
(* Properties of issue creation and of failing deliveries *)

ItemRowsOf(itemData, id) ==
    Cardinality({i \in 1..Len(itemData) : itemData[i].meetingRecapId = id})

\* C13: a delivery of a new recap whose matcher run, GitHub import or issue
\* creation fails still answers success with action "created", and the recap
\* row and the rows of its action items are stored.
C13_FollowUpFailureKeepsIngestion ==
    [][(lastOp'.op = "doPost" /\ lastOp'.failed # {}) =>
        LET id == extractMeetingRecapId(lastOp'.delivered)
        IN /\ lastOp'.success
           /\ lastOp'.action = "created"
           /\ lastOp'.meetingRecapId = id
           /\ RowCount(recapSheet, id) = 0
           /\ RowCount(recapSheet', id) = 1
           /\ ItemRowsOf(actionItemSheet', id) = ItemRowsOf(actionItemSheet, id) + MaxItems
           /\ Len(othersItemSheet') >= Len(othersItemSheet)]_vars

\* the matcher failed after clearing the cross-references, the GitHub import
\* and the issue creation failed too, and the second recap is stored with its
\* action items beside the first
C13_Witness ==
    /\ lastOp.op = "doPost"
    /\ lastOp.failed = {"matcher", "githubImport", "issues"}
    /\ lastOp.action = "created"
    /\ Len(recapSheet) = 2
    /\ recapSheet[2].meetingRecapId = lastOp.meetingRecapId
    /\ ItemRowsOf(actionItemSheet, lastOp.meetingRecapId) = MaxItems
    /\ ItemRowsOf(othersItemSheet, lastOp.meetingRecapId) = MaxItems
    /\ calendarSheet # <<>>

\* C19: a delivery whose body is not valid JSON is answered with HTTP status
\* 400, one whose processing throws (no meetingInfo, no recap id in the link)
\* with HTTP status 500, and neither writes a row to any sheet.
C19_RejectionStatus ==
    [][(lastOp'.op = "doPost" /\ lastOp'.statusCode # 0) =>
        /\ ~lastOp'.success
        /\ lastOp'.statusCode \in {400, 500}
        /\ lastOp'.httpStatus = lastOp'.statusCode
        /\ UNCHANGED <<recapSheet, calendarSheet, actionItemSheet, othersItemSheet,
                       githubSheet, emailSheet, accountDataRaw>>]_vars
----------------------------------------------------------------------------
(* Properties of stored recap rows *)

WithoutCrossReference(row) == [row EXCEPT !.calendarEventId = Empty]

\* C14: once a delivery has created a recap row, no later operation (matcher
\* run, fix script, rebuild, other delivery) changes a field of the row other
\* than its Calendar Event ID.
C14_RecapRowImmutable ==
    [][\A i \in 1..Len(recapSheet) :
          /\ i <= Len(recapSheet')
          /\ WithoutCrossReference(recapSheet'[i]) = WithoutCrossReference(recapSheet[i])]_vars
----------------------------------------------------------------------------
(* Properties of the engagement score *)

Computed == lastOp.op = "computeEngagementMetrics" /\ lastOp.metrics # <<>>

MetricsOf(input) ==
    computeEngagementMetrics(input.tasks, input.emails, input.meetings, <<>>, <<>>,
                             input.now)

\* the dates of the records that lie at or after the given time
DatedSince(records, field, since) ==
    {i \in 1..Len(records) : records[i][field] # <<>> /\ records[i][field][1] >= since}

SameButRecency(input) ==
    {other \in {[input EXCEPT !.meetings = meetings] : meetings \in MeetingLists} :
        /\ MetricsOf(other).meetings30d = MetricsOf(input).meetings30d
        /\ MetricsOf(other).meetingsFuture = MetricsOf(input).meetingsFuture
        /\ MetricsOf(other).daysSinceLastContact # <<>>}

\* C16: of two accounts that agree in everything but the time of their last
\* contact, the one whose last contact is fewer days ago has an engagement
\* score at least as high as the other's.
C16_MonotonicInRecency ==
    (Computed /\ lastOp.metrics[1].daysSinceLastContact # <<>>) =>
        \A other \in SameButRecency(lastOp.input[1]) :
            MetricsOf(other).daysSinceLastContact[1]
                    <= lastOp.metrics[1].daysSinceLastContact[1]
                => MetricsOf(other).engagementScore >= lastOp.metrics[1].engagementScore

\* an account last contacted 91 days ago, and one like it last contacted 61
\* days ago that scores higher
C16_Witness ==
    /\ Computed
    /\ lastOp.metrics[1].daysSinceLastContact = <<91>>
    /\ \E other \in SameButRecency(lastOp.input[1]) :
          /\ MetricsOf(other).daysSinceLastContact = <<61>>
          /\ MetricsOf(other).engagementScore > lastOp.metrics[1].engagementScore
----------------------------------------------------------------------------
(* Properties of the rebuild over missing sheets and columns *)

\* the columns of the report sheets that the joins of the rebuild read
RequiredColumns ==
    {<<"Accounts Card Report", "next_renewal_opportunity_id">>,
     <<"Opptys Report", "Name">>,
     <<"Renewal Opportunities", "link">>}

\* C17: with an optional source sheet missing (GitHub Tasks, Email
\* Communications, Calendar Events, Webhook Meeting Recaps, Meeting Action
\* Items) and the report sheets complete, a rebuild completes, writes one row
\* per active account, and the counts drawn from the missing sheet are 0.
C17_MissingOptionalDegrades ==
    [][(/\ lastOp'.op = "generateAccountDataRaw"
        /\ OptionalSheets \cap missingSheets # {}
        /\ RequiredSheets \cap missingSheets = {}
        /\ absentColumns = {}) =>
        /\ lastOp'.success
        /\ ~lastOp'.threw
        /\ "Account Data Raw" \notin missingSheets'
        /\ \A i \in 1..Len(accountsCard) :
              Cardinality({k \in 1..Len(accountDataRaw') :
                              accountDataRaw'[k].accountName = accountsCard[i].Name})
                 = IF PassesBothJoins(i) THEN 1 ELSE 0
        /\ \A k \in 1..Len(accountDataRaw') :
              /\ "GitHub Tasks" \in missingSheets => accountDataRaw'[k].tasksTotal = 0
              /\ "Email Communications" \in missingSheets
                    => accountDataRaw'[k].emailTotal = 0
              /\ "Calendar Events" \in missingSheets
                    => accountDataRaw'[k].meetingsTotal = 0
              /\ "Webhook Meeting Recaps" \in missingSheets
                    => accountDataRaw'[k].recapsCount = 0
              /\ "Meeting Action Items" \in missingSheets
                    => accountDataRaw'[k].actionItemsCount = 0]_vars

\* a rebuild without the recap sheet wrote the row of an account that has
\* meetings and a task, with no recap and no action item, while the action
\* item sheet holds the items of a recap
C17_Witness ==
    /\ lastOp.op = "generateAccountDataRaw"
    /\ ~lastOp.threw
    /\ "Webhook Meeting Recaps" \in missingSheets
    /\ actionItemSheet # <<>>
    /\ \E k \in 1..Len(accountDataRaw) :
          /\ accountDataRaw[k].meetingsTotal >= 1
          /\ accountDataRaw[k].tasksTotal = 1
          /\ accountDataRaw[k].recapsCount = 0
          /\ accountDataRaw[k].actionItemsCount = 0

\* C18: with a required sheet (Accounts Card Report, Opptys Report, Renewal
\* Opportunities) or a required column of one of them missing, a rebuild
\* aborts with an error and leaves Account Data Raw exactly as it was.
C18_MissingRequiredAborts ==
    [][(/\ lastOp'.op = "generateAccountDataRaw"
        /\ \/ RequiredSheets \cap missingSheets # {}
           \/ RequiredColumns \cap absentColumns # {}) =>
        /\ lastOp'.threw
        /\ ~lastOp'.success
        /\ accountDataRaw' = accountDataRaw]_vars
----------------------------------------------------------------------------
(* Properties of account resolution *)

\* the positions of the addresses that resolve
Resolving(addresses, Resolve(_)) ==
    {i \in 1..Len(addresses) : Resolve(addresses[i]) # Empty}

\* the result of the address of least position that resolves, Empty if none
FirstResolved(addresses, Resolve(_)) ==
    IF Resolving(addresses, Resolve) = {} THEN Empty
    ELSE Resolve(addresses[CHOOSE i \in Resolving(addresses, Resolve) :
                              \A k \in Resolving(addresses, Resolve) : i <= k])

\* the external addresses of a recap row, actual attendees before invited ones
AttendeesOf(row) ==
    SelectSeq(row.actualAttendees \o row.invitedAttendees, LAMBDA e : ~IsInternal(e))

\* C20: a record with several addresses gets the result of the first address
\* that resolves: an imported email that of From, else of the To addresses in
\* order, else of the Cc addresses in order; a recap, at its delivery and when
\* the fix script resolves it, that of its actual attendees in order, else of
\* its invited attendees in order (addresses of the own domain left out).
C20_FirstMatchWins ==
    [][/\ lastOp'.op = "importEmailsByDomain" =>
            \A i \in (Len(emailSheet) + 1)..Len(emailSheet') :
                LET row == emailSheet'[i]
                IN row.opportunity
                      = FirstResolved(<<row.from>> \o row.to \o row.cc,
                                      LAMBDA e : findOpportunityByEmail(
                                                     e, oppMappingSheet,
                                                     lastOp'.input[1].variant))
       /\ (lastOp'.op = "doPost" /\ lastOp'.action = "created") =>
            LET row == recapSheet'[Len(recapSheet')]
            IN row.accountId
                  = FirstResolved(AttendeesOf(row),
                                  LAMBDA e : findAccountByEmailCached(e, mappingSheet))
       /\ lastOp'.op = "fixMissingAccounts" =>
            \A i \in 1..Len(recapSheet) :
                recapSheet[i].accountId = Empty =>
                    recapSheet'[i].accountId
                       = FirstResolved(AttendeesOf(recapSheet[i]),
                                       LAMBDA e : findAccountByEmailCached(e, mappingSheet))
      ]_vars

\* an email resolved by its second To address while a later To address and a
\* Cc address resolve to another opportunity; an email resolved by a Cc
\* address; a recap resolved by its second invited attendee while the third
\* resolves to another account; and a recap the fix script resolved
C20_Witness ==
    /\ \E i \in 1..Len(emailSheet) :
          /\ emailSheet[i].messageId = "m2"
          /\ emailSheet[i].opportunity = "2026 - REN - Acme"
    /\ \E i \in 1..Len(emailSheet) :
          /\ emailSheet[i].messageId = "m3"
          /\ emailSheet[i].opportunity = "2026 - REN - Acme"
    /\ \E i \in 1..Len(recapSheet) :
          /\ recapSheet[i].actualAttendees = <<dan>>
          /\ recapSheet[i].accountId = "ACC2"
    /\ lastOp.op = "fixMissingAccounts"
    /\ lastOp.fixed = 1
----------------------------------------------------------------------------
(* Addresses of the own domain *)

\* the operator enters an email domain in the 'Email Domains' cell of a row of
\* the opportunity mapping sheet
enterOpportunityDomain(i, domain) ==
    /\ i \in 1..Len(oppMappingSheet)
    /\ domain \notin oppMappingSheet[i].domains
    /\ oppMappingSheet' = [oppMappingSheet EXCEPT ![i].domains = @ \cup {domain}]
    /\ lastOp' = [NoOp EXCEPT !.op = "enterOpportunityDomain"]
    /\ UNCHANGED <<sheets, feeds, accountDataRaw, mappingSheet, emailSheet,
                   githubSheet, layout, tracker, runtime>>

\* deliveries attended by the own domain only, or by it and a customer
InternalPayloads ==
    {Payload(LinkOf(id), <<"S">>, 1, att, 0, 0) :
        id \in RecapIds,
        att \in {[actual |-> <<amy>>, invited |-> <<amy>>],
                 [actual |-> <<amy, cat>>, invited |-> <<amy>>],
                 [actual |-> <<amy>>, invited |-> <<dan>>]}}

\* both mapping sheets may come to list the own domain
NextInternal ==
    \/ \E messages \in SearchResults, variant \in DomainVariants :
          importEmailsByDomain(messages, variant)
    \/ Deliver(InternalPayloads, {TRUE})
    \/ enterOpportunityDomain(1, "observepoint.com")
    \/ enterEmailDomain(1, "observepoint.com")
    \/ fixMissingAccountsInMeetingRecaps

SpecInternal == Init /\ [][NextInternal]_vars

\* the addresses of a sequence that are not of the own domain
WithoutInternal(addresses) == SelectSeq(addresses, LAMBDA e : ~IsInternal(e))

\* C21: addresses of the own domain (observepoint.com) are left out before a
\* record is resolved, so an imported email gets the opportunity its external
\* From/To/Cc addresses resolve to, and a recap, at delivery and in the fix
\* script, the account its external attendees resolve to, even when a mapping
\* sheet lists the own domain.
C21_InternalExcluded ==
    [][/\ lastOp'.op = "importEmailsByDomain" =>
            \A i \in (Len(emailSheet) + 1)..Len(emailSheet') :
                LET row == emailSheet'[i]
                IN row.opportunity
                      = FirstOpportunity(WithoutInternal(<<row.from>> \o row.to \o row.cc),
                                         oppMappingSheet, lastOp'.input[1].variant)
       /\ (lastOp'.op = "doPost" /\ lastOp'.action = "created") =>
            LET row == recapSheet'[Len(recapSheet')]
            IN row.accountId
                  = ResolveFirst(WithoutInternal(row.actualAttendees \o row.invitedAttendees),
                                 mappingSheet)
       /\ lastOp'.op = "fixMissingAccounts" =>
            \A i \in 1..Len(recapSheet) :
                recapSheet[i].accountId = Empty =>
                    recapSheet'[i].accountId
                       = ResolveFirst(WithoutInternal(recapSheet[i].actualAttendees
                                                         \o recapSheet[i].invitedAttendees),
                                      mappingSheet)
      ]_vars

\* the half of C21 about recaps: a recap is never resolved through an address
\* of the own domain
C21_RecapInternalExcluded ==
    [][/\ (lastOp'.op = "doPost" /\ lastOp'.action = "created") =>
            LET row == recapSheet'[Len(recapSheet')]
            IN row.accountId
                  = ResolveFirst(WithoutInternal(row.actualAttendees \o row.invitedAttendees),
                                 mappingSheet)
       /\ lastOp'.op = "fixMissingAccounts" =>
            \A i \in 1..Len(recapSheet) :
                recapSheet[i].accountId = Empty =>
                    recapSheet'[i].accountId
                       = ResolveFirst(WithoutInternal(recapSheet[i].actualAttendees
                                                         \o recapSheet[i].invitedAttendees),
                                      mappingSheet)
      ]_vars
----------------------------------------------------------------------------
(* Properties of the email import *)

\* C22: after any sequence of importEmailsByDomain runs the email sheet holds
\* at most one row per Message ID: a message that is stored already, or that
\* one fetch returns twice, is not written again.
C22_OneRowPerMessageId ==
    \A i, j \in 1..Len(emailSheet) :
        emailSheet[i].messageId = emailSheet[j].messageId => i = j

\* a fetch has returned the three messages, one of them twice, while the sheet
\* held the third of them from an earlier run
C22_Witness ==
    /\ lastOp.op = "importEmailsByDomain"
    /\ lastOp.total = 3
    /\ Len(emailSheet) = 3
    /\ emailSheet[1].messageId = "m3"
----------------------------------------------------------------------------
(* Repair of the account references of stored emails *)

\* the first three characters of the cell values used here
SalesforcePrefix(value) ==
    CASE value \in {"001A", "001B"} -> "001"
      [] value = "006Z" -> "006"
      [] OTHER -> "other"

\* currentAccountId.startsWith('001') || currentAccountId.startsWith('006') ...
IsAlreadyAnId(currentAccountId) == SalesforcePrefix(currentAccountId) \in {"001", "006"}

\* nameToIdMap.get(name): the Id of the last row of the accounts sheet that
\* has an Id and this Name, Empty for undefined
RECURSIVE nameToIdMap(_, _)
nameToIdMap(accounts, name) ==
    IF accounts = <<>> THEN Empty
    ELSE LET r == accounts[Len(accounts)]
         IN IF r.Id # Empty /\ r.Name # Empty /\ r.Name = name THEN r.Id
            ELSE nameToIdMap(SubSeq(accounts, 1, Len(accounts) - 1), name)

\* a row whose 'Account ID' cell holds a name that the accounts sheet knows
NeedsFix(row, accounts) ==
    /\ row.accountId # Empty
    /\ ~IsAlreadyAnId(row.accountId)
    /\ nameToIdMap(accounts, row.accountId) # Empty

\* mutation: the name is copied to 'Account Name' and 'Account ID' is left
FixedEmailRowNameOnly(row, accounts) ==
    IF NeedsFix(row, accounts) THEN [row EXCEPT !.accountName = row.accountId] ELSE row

\* the row after the loop body: the id replaces the name, which goes to the
\* 'Account Name' cell
FixedEmailRow(row, accounts) ==
    IF NeedsFix(row, accounts)
    THEN [row EXCEPT !.accountId = nameToIdMap(accounts, row.accountId),
                     !.accountName = row.accountId]
    ELSE row

\* fixEmailAccountReferences over a sheet that has the 'Account ID' and
\* 'Account Name' columns
fixEmailAccountReferences ==
    IF {"Email Communications", "Accounts Card Report"} \cap missingSheets # {}
    THEN /\ lastOp' = [NoOp EXCEPT !.op = "fixEmailAccountReferences",
                                   !.success = FALSE, !.threw = TRUE]
         /\ UNCHANGED <<sheets, feeds, accountDataRaw, mappingSheet, tables, layout,
                        tracker, runtime>>
    ELSE LET rows == 1..Len(emailSheet)
         IN /\ emailSheet' = [i \in rows |-> FixedEmailRow(emailSheet[i], accountsCard)]
            /\ lastOp' = [NoOp EXCEPT
                  !.op = "fixEmailAccountReferences",
                  !.repeated = (lastOp.op = "fixEmailAccountReferences" /\ ~lastOp.threw),
                  !.fixed = Cardinality({i \in rows : NeedsFix(emailSheet[i], accountsCard)}),
                  !.skipped = Cardinality({i \in rows :
                                  /\ emailSheet[i].accountId # Empty
                                  /\ IsAlreadyAnId(emailSheet[i].accountId)}),
                  !.errors = Cardinality({i \in rows :
                                  /\ emailSheet[i].accountId # Empty
                                  /\ ~IsAlreadyAnId(emailSheet[i].accountId)
                                  /\ nameToIdMap(accountsCard, emailSheet[i].accountId) = Empty})]
            /\ UNCHANGED <<sheets, feeds, accountDataRaw, mappingSheet, githubSheet,
                           oppMappingSheet, layout, tracker, runtime>>

\* the accounts report as exported, and one in which two accounts bear a name
SalesforceAccountFeeds ==
    {<<AccountRow("001A", "Acme", "OPP1"), AccountRow("001B", "Globex", "OPP2")>>,
     <<AccountRow("001A", "Acme", "OPP1"), AccountRow("001B", "Acme", "OPP2")>>}

\* stored email rows of the earlier importer, which wrote the account name
\* where the account id belongs: the cell is empty, a name the report knows,
\* a name it does not know, or an id
HistoricalEmailRow(messageId) ==
    {[messageId |-> messageId, accountId |-> a, accountName |-> n] :
        a \in {Empty, "Acme", "Globex", "Initech", "001A"}, n \in {Empty, "Acme"}}

EmailHistories ==
    {<<>>} \cup {<<r>> : r \in HistoricalEmailRow("h1")}
           \cup {<<r, s>> : r \in HistoricalEmailRow("h1"), s \in HistoricalEmailRow("h2")}

InitEmailFix ==
    /\ recapSheet = <<>>
    /\ calendarSheet = <<>>
    /\ actionItemSheet = <<>>
    /\ othersItemSheet = <<>>
    /\ accountsCard = <<>>
    /\ opptysReport = <<>>
    /\ renewalOpps = <<>>
    /\ accountDataRaw = <<>>
    /\ mappingSheet = MappingRows
    /\ emailSheet \in EmailHistories
    /\ githubSheet = <<>>
    /\ oppMappingSheet = OpportunityMappingRows
    /\ missingSheets = {"Accounts Card Report"}
    /\ absentColumns = {}
    /\ tracker = [k \in ItemKeys |-> 0]
    /\ lastKnownCustomers = <<>>
    /\ inFlight = <<>>
    /\ lastOp = NoOp

\* the accounts report is imported and the repair is run, any number of times
NextEmailFix ==
    \/ \E data \in SalesforceAccountFeeds : importLatestCSVManual("accounts-card", data, {})
    \/ fixEmailAccountReferences

SpecEmailFix == InitEmailFix /\ [][NextEmailFix]_vars

\* C23: fixEmailAccountReferences is idempotent: a run that directly follows
\* a run leaves the email sheet as the first run left it and reports zero rows
\* fixed.
C23_FixIsIdempotent ==
    [][(lastOp'.op = "fixEmailAccountReferences" /\ lastOp'.repeated)
          => /\ emailSheet' = emailSheet
             /\ lastOp'.fixed = 0
             /\ ~lastOp'.threw]_vars

\* a run that directly followed a run which fixed two rows
C23_Witness ==
    /\ lastOp.op = "fixEmailAccountReferences"
    /\ lastOp.repeated
    /\ lastOp.fixed = 0
    /\ lastOp.skipped = 2
    /\ Len(emailSheet) = 2
    /\ \A i \in 1..2 : emailSheet[i].accountName \in {"Acme", "Globex"}
    /\ emailSheet[2].accountId = "001B"
    /\ emailSheet[2].accountName = "Acme"
----------------------------------------------------------------------------
(* Active accounts and the account mapping sheet *)

\* a JavaScript Map as the sequence of its <<key, value>> entries in insertion
\* order: set() of a key it holds replaces the value where the entry is
MapSet(map, key, value) ==
    IF \E i \in 1..Len(map) : map[i][1] = key
    THEN [i \in 1..Len(map) |-> IF map[i][1] = key THEN <<key, value>> ELSE map[i]]
    ELSE Append(map, <<key, value>>)

\* activeOpportunityNames: the names of the renewal rows, each once, in the
\* order of their first row
activeOpportunityNames(renewals) ==
    Dedupe(SelectSeq([i \in 1..Len(renewals) |->
                         extractOpportunityNameFromLink(renewals[i].link)],
                     LAMBDA oppName : oppName # Empty))

\* oppNameToId.get(oppName): the Id of the last row of Opptys Report that has
\* an Id and this Name, Empty for undefined
RECURSIVE oppNameToId(_, _)
oppNameToId(opptys, oppName) ==
    IF opptys = <<>> THEN Empty
    ELSE LET row == opptys[Len(opptys)]
         IN IF row.Id # Empty /\ row.Name # Empty /\ row.Name = oppName THEN row.Id
            ELSE oppNameToId(SubSeq(opptys, 1, Len(opptys) - 1), oppName)

\* oppIdToAccount.get(oppId): the account of the last row of Accounts Card
\* Report that has an Id and this next-renewal opportunity id; <<>> if none
RECURSIVE oppIdToAccount(_, _)
oppIdToAccount(accounts, oppId) ==
    IF accounts = <<>> THEN <<>>
    ELSE LET row == accounts[Len(accounts)]
         IN IF /\ row.Id # Empty
               /\ row.next_renewal_opportunity_id # Empty
               /\ row.next_renewal_opportunity_id = oppId
            THEN <<[accountId |-> row.Id, accountName |-> row.Name,
                    opportunityId |-> oppId, opportunityName |-> Empty]>>
            ELSE oppIdToAccount(SubSeq(accounts, 1, Len(accounts) - 1), oppId)

\* the loop over activeOpportunityNames that fills the result map
RECURSIVE ActiveNameLoop(_, _, _, _)
ActiveNameLoop(names, opptys, accounts, result) ==
    IF names = <<>> THEN result
    ELSE LET oppName == Head(names)
             oppId == oppNameToId(opptys, oppName)
             found == IF oppId = Empty THEN <<>> ELSE oppIdToAccount(accounts, oppId)
         IN ActiveNameLoop(Tail(names), opptys, accounts,
               IF found = <<>> THEN result
               ELSE MapSet(result, oppId, [found[1] EXCEPT !.opportunityName = oppName]))

\* buildOpportunityToAccountMap: opportunity id -> account, for the accounts
\* whose opportunity is named by Renewal Opportunities; an empty map when one
\* of the three sheets does not exist
buildOpportunityToAccountMap(book, missing, absent) ==
    IF RequiredSheetsMissing(missing) THEN <<>>
    ELSE ActiveNameLoop(
            activeOpportunityNames(
                ReadReport(book.renewalOpps, "Renewal Opportunities", absent)),
            ReadReport(book.opptysReport, "Opptys Report", absent),
            ReadReport(book.accountsCard, "Accounts Card Report", absent), <<>>)

RECURSIVE AccountMapLoop(_, _)
AccountMapLoop(oppToAccountMap, accountMap) ==
    IF oppToAccountMap = <<>> THEN accountMap
    ELSE LET accountInfo == Head(oppToAccountMap)[2]
         IN AccountMapLoop(Tail(oppToAccountMap),
                           MapSet(accountMap, accountInfo.accountId, accountInfo))

\* buildAccountMap: account id -> account info of the active accounts
buildAccountMap(book, missing, absent) ==
    AccountMapLoop(buildOpportunityToAccountMap(book, missing, absent), <<>>)

\* existingMappings.get(accountId) || '': the domains of the last row of the
\* mapping sheet with that account id
RECURSIVE existingMappings(_, _)
existingMappings(rows, accountId) ==
    IF rows = <<>> THEN {}
    ELSE LET row == rows[Len(rows)]
         IN IF row.accountId # Empty /\ row.accountId = accountId THEN row.domains
            ELSE existingMappings(SubSeq(rows, 1, Len(rows) - 1), accountId)

\* the order of localeCompare on the account names used here
NameRank(accountName) ==
    CASE accountName = Empty -> 0
      [] accountName = "Acme" -> 1
      [] accountName = "Globex" -> 2
      [] accountName = "Initech" -> 3
      [] accountName = "Umbrella" -> 4

RECURSIVE InsertByName(_, _)
InsertByName(sorted, row) ==
    IF sorted = <<>> THEN <<row>>
    ELSE IF NameRank(Head(sorted).accountName) <= NameRank(row.accountName)
         THEN <<Head(sorted)>> \o InsertByName(Tail(sorted), row)
         ELSE <<row>> \o sorted

\* dataRows.sort((a, b) => a[1].localeCompare(b[1])), a stable sort
RECURSIVE SortByAccountName(_)
SortByAccountName(rows) ==
    IF rows = <<>> THEN <<>>
    ELSE InsertByName(SortByAccountName(SubSeq(rows, 1, Len(rows) - 1)), rows[Len(rows)])

\* the rows updateAccountMapping writes: one per active account, with the
\* domains the sheet held for its account id
NewMappingData(accountMap, existingData) ==
    [i \in 1..Len(accountMap) |->
        [accountId |-> accountMap[i][1], accountName |-> accountMap[i][2].accountName,
         domains |-> existingMappings(existingData, accountMap[i][1])]]

\* updateAccountMapping: the mapping sheet is cleared and rewritten from the
\* active accounts, sorted by account name
updateAccountMapping ==
    /\ mappingSheet' = SortByAccountName(
                          NewMappingData(buildAccountMap(Book, missingSheets, absentColumns),
                                         mappingSheet))
    /\ lastOp' = [NoOp EXCEPT !.op = "updateAccountMapping"]
    /\ UNCHANGED <<sheets, feeds, accountDataRaw, tables, layout, tracker, runtime>>

\* the reports change from import to import, the operator enters domains and
\* refreshes the mapping sheet
NextMapping ==
    \/ \E data \in {SubSeq(AccountRows, 1, 1), SubSeq(AccountRows, 1, 2), AccountRows} :
          importLatestCSVManual("accounts-card", data, {})
    \/ \E data \in {SubSeq(OpptyRows, 1, 2), OpptyRows} :
          importLatestCSVManual("opptys-report", data, {})
    \/ \E data \in {SubSeq(RenewalRows, 1, 1), SubSeq(RenewalRows, 1, 2), RenewalRows} :
          importLatestCSVManual("renewal-opportunities", data, {})
    \/ \E i \in 1..Len(mappingSheet) : enterEmailDomain(i, "nomap.org")
    \/ updateAccountMapping

SpecMapping == Init /\ [][NextMapping]_vars

\* C24: updateAccountMapping loses no Email Domains value the mapping sheet
\* holds: every account id that has domains before a run has a row with these
\* domains after it, whatever the set of active accounts is at the run.
C24_DomainsPreserved ==
    [][lastOp'.op = "updateAccountMapping" =>
          \A i \in 1..Len(mappingSheet) :
              mappingSheet[i].domains # {} =>
                  \E j \in 1..Len(mappingSheet') :
                      /\ mappingSheet'[j].accountId = mappingSheet[i].accountId
                      /\ mappingSheet[i].domains \subseteq mappingSheet'[j].domains]_vars

\* the part of C24 the code keeps: an account that is active at the run keeps
\* the domains of its row
C24_ActiveKeepDomains ==
    [][lastOp'.op = "updateAccountMapping" =>
          \A i \in 1..Len(mappingSheet) :
              (/\ \A k \in 1..Len(mappingSheet) :
                     mappingSheet[k].accountId = mappingSheet[i].accountId => k <= i
               /\ \E m \in 1..Len(buildAccountMap(Book, missingSheets, absentColumns)) :
                     buildAccountMap(Book, missingSheets, absentColumns)[m][1]
                        = mappingSheet[i].accountId)
                 => \E j \in 1..Len(mappingSheet') :
                      /\ mappingSheet'[j].accountId = mappingSheet[i].accountId
                      /\ mappingSheet'[j].domains = mappingSheet[i].domains]_vars
----------------------------------------------------------------------------
(* Detection of new customers *)

\* parts.slice(2).join(' - ').trim() of the opportunity names used here
AccountNameOfOpportunity(oppName) ==
    CASE oppName \in {"2026 - REN - Acme", "2025 - REN - Acme"} -> "Acme"
      [] oppName = "2026 - REN - Globex" -> "Globex"
      [] OTHER -> oppName

\* extractAccountNameFromLink: the account part of the name a HYPERLINK
\* formula shows; any other cell as it is (a number stands as "#number")
extractAccountNameFromLink(linkCell) ==
    IF linkCell = <<>> THEN Empty
    ELSE IF linkCell[1] = "HYPERLINK" THEN AccountNameOfOpportunity(linkCell[2])
    ELSE IF linkCell[1] = "NUMBER" THEN "#number"
    ELSE linkCell[2]

\* currentAccounts: the account names of the renewal rows, each once
currentAccounts(renewals) ==
    Dedupe(SelectSeq([i \in 1..Len(renewals) |-> extractAccountNameFromLink(renewals[i].link)],
                     LAMBDA accountName : accountName # Empty))

\* the elements of an array
Elements(array) == {array[i] : i \in 1..Len(array)}

\* setProperty(NEW_CUSTOMERS_PROPERTY, JSON.stringify(Array.from(currentAccounts)))
StoredAfterDetection(current, lastKnown) == current

\* detectNewCustomers over the renewal sheet and the stored list: <<>> when it
\* throws, else the result and the list it stores
detectNewCustomers(renewals, missing, absent, lastKnown) ==
    IF "Renewal Opportunities" \in missing
          \/ <<"Renewal Opportunities", "link">> \in absent
    THEN <<>>
    ELSE LET current == currentAccounts(renewals)
         IN <<[newAccounts |-> SelectSeq(current, LAMBDA a : a \notin Elements(lastKnown)),
               removedAccounts |-> SelectSeq(lastKnown, LAMBDA a : a \notin Elements(current)),
               totalAccounts |-> Len(current),
               stored |-> StoredAfterDetection(current, lastKnown)]>>

\* the step both entry points share; the creation of document tabs by the
\* scheduled one writes to the notes document, which is not a sheet
CustomerCheck(op) ==
    LET result == detectNewCustomers(renewalOpps, missingSheets, absentColumns,
                                     lastKnownCustomers)
    IN /\ lastKnownCustomers' = IF result = <<>> THEN lastKnownCustomers
                                ELSE result[1].stored
       /\ lastOp' = [NoOp EXCEPT
             !.op = op,
             !.success = (result # <<>>),
             !.metrics = IF result = <<>> THEN <<>>
                         ELSE <<[newAccounts |-> result[1].newAccounts,
                                 removedAccounts |-> result[1].removedAccounts,
                                 totalAccounts |-> result[1].totalAccounts]>>]
       /\ UNCHANGED <<sheets, feeds, accountDataRaw, mappingSheet, tables, layout,
                      tracker, inFlight>>

\* the menu entry
showNewCustomerChecklist == CustomerCheck("showNewCustomerChecklist")

\* the daily trigger
autoCheckAndSetupNewCustomers == CustomerCheck("autoCheckAndSetupNewCustomers")

\* renewal exports change, the trigger fires and the operator checks
NextCustomers ==
    \/ \E data \in SubSequences(RenewalRows) :
          importLatestCSVManual("renewal-opportunities", data, {})
    \/ autoCheckAndSetupNewCustomers
    \/ showNewCustomerChecklist

SpecCustomers == Init /\ [][NextCustomers]_vars

\* C25: the customers a scheduled run of autoCheckAndSetupNewCustomers
\* reported as new are reported as new by the manual check that follows it.
C25_NewCustomerShownAtNextCheck ==
    [][(/\ lastOp.op = "autoCheckAndSetupNewCustomers" /\ lastOp.success
        /\ lastOp'.op = "showNewCustomerChecklist")
          => /\ lastOp'.success
             /\ Elements(lastOp.metrics[1].newAccounts)
                   \subseteq Elements(lastOp'.metrics[1].newAccounts)]_vars

\* what the code does: a manual check that follows a scheduled run reports no
\* new and no removed customer
C25_NextCheckReportsNothing ==
    [][(/\ lastOp.op = "autoCheckAndSetupNewCustomers" /\ lastOp.success
        /\ lastOp'.op = "showNewCustomerChecklist")
          => /\ lastOp'.metrics[1].newAccounts = <<>>
             /\ lastOp'.metrics[1].removedAccounts = <<>>]_vars
----------------------------------------------------------------------------
(* Issue creation for the action items of one delivery *)

\* deliveries without action items and with a batch of them
BatchPayloads ==
    {Payload(LinkOf(id), <<"S">>, 1, [actual |-> <<amy, bob>>, invited |-> <<cat>>], my, 0) :
        id \in RecapIds, my \in {0, MaxBatch}}

NextBatch == Deliver(BatchPayloads, BOOLEAN)

SpecBatch == Init /\ [][NextBatch]_vars

\* the rows of 'Meeting Action Items' of a recap
ItemRowsOfRecap(meetingRecapId) ==
    {i \in 1..Len(actionItemSheet) : actionItemSheet[i].meetingRecapId = meetingRecapId}

\* the last operation is a delivery that stored its recap
Stored == lastOp.op = "doPost" /\ lastOp.action = "created"

----------------------------------------------------------------------------
(* Deliveries that run at the same time *)

\* The web app runs each request in an execution of its own and the handler
\* takes no lock, so the sheet calls of two executions interleave.  An
\* execution is followed from its duplicate check to its write of the recap
\* row; what it does after that write is taken as one step.

\* sheet.getRange(nextRow, 1, 1, row.length).setValues([row]), nextRow counted
\* in data rows: the row is written where the execution found the end of the
\* sheet to be
SetRecapRow(recapData, nextRow, recap) ==
    IF nextRow <= Len(recapData)
    THEN [recapData EXCEPT ![nextRow] = recap]
    ELSE Append(recapData, recap)

\* an execution validates its payload and asks isMeetingRecapDuplicate
beginDoPost(payload) ==
    LET meetingRecapId == extractMeetingRecapId(payload.meetingLink)
    IN /\ Len(inFlight) < MaxInFlight
       /\ payload.meetingInfo
       /\ meetingRecapId # Empty
       /\ IF isMeetingRecapDuplicate(recapSheet, meetingRecapId)
          THEN /\ lastOp' = [NoOp EXCEPT !.op = "doPost", !.action = "skipped",
                                         !.delivered = payload.meetingLink,
                                         !.meetingRecapId = meetingRecapId,
                                         !.httpStatus = createJsonResponse(0)]
               /\ UNCHANGED inFlight
          ELSE /\ inFlight' = Append(inFlight, [payload |-> payload,
                                                meetingRecapId |-> meetingRecapId,
                                                pc |-> "checked", nextRow |-> 0])
               /\ lastOp' = [NoOp EXCEPT !.op = "doPost:isMeetingRecapDuplicate"]
       /\ UNCHANGED <<sheets, feeds, accountDataRaw, mappingSheet, tables, layout,
                      tracker, lastKnownCustomers>>

\* const nextRow = sheet.getLastRow() + 1
readLastRow(k) ==
    /\ k \in 1..Len(inFlight)
    /\ inFlight[k].pc = "checked"
    /\ inFlight' = [inFlight EXCEPT ![k].pc = "appending",
                                    ![k].nextRow = Len(recapSheet) + 1]
    /\ lastOp' = [NoOp EXCEPT !.op = "doPost:getLastRow"]
    /\ UNCHANGED <<sheets, feeds, accountDataRaw, mappingSheet, tables, layout,
                   tracker, lastKnownCustomers>>

\* the execution writes its recap row and runs to its response
finishDoPost(k) ==
    /\ k \in 1..Len(inFlight)
    /\ inFlight[k].pc = "appending"
    /\ LET run == inFlight[k]
           recap == flattenWebhookMeetingRecap(run.payload, run.meetingRecapId,
                                               mappingSheet)
           written == SetRecapRow(recapSheet, run.nextRow, recap)
           m == MatcherRun(written, calendarSheet,
                           missingSheets \ {"Webhook Meeting Recaps"}, "none")
       IN /\ recapSheet' = m.recapSheet
          /\ calendarSheet' = m.calendarSheet
          /\ actionItemSheet' = writeMyActionItemsToSheet(actionItemSheet,
                                   run.payload.myItems, run.meetingRecapId)
          /\ othersItemSheet' = writeOthersActionItemsToSheet(othersItemSheet,
                                   run.payload.othersItems, run.meetingRecapId)
          /\ missingSheets' = missingSheets \ {"Webhook Meeting Recaps"}
          /\ inFlight' = [i \in 1..(Len(inFlight) - 1) |->
                             IF i < k THEN inFlight[i] ELSE inFlight[i + 1]]
          /\ lastOp' = [NoOp EXCEPT !.op = "doPost", !.action = "created",
                                    !.delivered = run.payload.meetingLink,
                                    !.meetingRecapId = run.meetingRecapId,
                                    !.matcherRan = TRUE, !.wrote = m.wrote,
                                    !.matches = m.matches,
                                    !.httpStatus = createJsonResponse(0)]
    /\ UNCHANGED <<feeds, accountDataRaw, mappingSheet, tables, absentColumns,
                   tracker, lastKnownCustomers>>

\* deliveries of two recaps, each as attended by one of two customers
RacePayloads ==
    {Payload(LinkOf(id), <<"S">>, 1, att, 0, 0) :
        id \in RecapIds,
        att \in {[actual |-> <<amy, bob>>, invited |-> <<>>],
                 [actual |-> <<amy, cat>>, invited |-> <<>>]}}

NextRace ==
    \/ \E payload \in RacePayloads : beginDoPost(payload)
    \/ \E k \in 1..MaxInFlight : readLastRow(k)
    \/ \E k \in 1..MaxInFlight : finishDoPost(k)

SpecRace == Init /\ [][NextRace]_vars

\* C27: when executions of doPost interleave, the recap sheet has, whenever
\* none is running, at most one row per recap id (exactly one for the id of
\* an execution that has just stored its recap), and no step replaces the row
\* of a recap by that of another recap.
C27_InterleavedDeliveriesKeepOneRow ==
    [][/\ inFlight' = <<>> =>
             \A id \in RecapIds :
                /\ RowCount(recapSheet', id) <= 1
                /\ (lastOp'.action = "created" /\ lastOp'.meetingRecapId = id)
                      => RowCount(recapSheet', id) = 1
       /\ \A i \in 1..Len(recapSheet) :
             /\ i <= Len(recapSheet')
             /\ recapSheet'[i].meetingRecapId = recapSheet[i].meetingRecapId]_vars
----------------------------------------------------------------------------
(* The two computations of the active accounts *)

\* the account names buildAccountMap holds
MappedAccountNames ==
    LET accountMap == buildAccountMap(Book, missingSheets, absentColumns)
    IN {accountMap[i][2].accountName : i \in 1..Len(accountMap)}

\* the account names of the rows buildConsolidatedData yields
ConsolidatedAccountNames ==
    LET sourceData == loadSourceData(Book, missingSheets, absentColumns)
        rows == IF sourceData = <<>> THEN <<>> ELSE buildConsolidatedData(sourceData[1])
    IN {rows[i].accountName : i \in 1..Len(rows)}

\* C28: for every content of the three report sheets the accounts
\* buildOpportunityToAccountMap / buildAccountMap hold as active are the
\* accounts buildConsolidatedData includes, also when two opportunities share
\* a name or two accounts share a next-renewal opportunity id.
C28_SameActiveAccounts == MappedAccountNames = ConsolidatedAccountNames

\* no two accounts share an opportunity id, and Opptys Report has one row per
\* opportunity id and per name
JoinsAreOneToOne ==
    /\ \A i, j \in 1..Len(accountsCard) :
          (accountsCard[i].next_renewal_opportunity_id
              = accountsCard[j].next_renewal_opportunity_id) => i = j
    /\ \A i, j \in 1..Len(opptysReport) :
          (opptysReport[i].Id = opptysReport[j].Id
              \/ opptysReport[i].Name = opptysReport[j].Name) => i = j

\* the part of C28 that holds: the two computations agree on reports whose
\* joins are one to one
C28_SameWhenOneToOne == JoinsAreOneToOne => C28_SameActiveAccounts
----------------------------------------------------------------------------
(* The account of a stored recap *)

\* the account fields of a recap row
AccountFields(row) == <<row.accountId, row.mappedDomain>>

\* C29: once the Account ID of a recap row is non-empty no operation changes
\* it: the fix script writes account fields only on rows whose Account ID is
\* empty, and a matcher run writes no account field of any row.
C29_AccountIdStable ==
    [][/\ \A i \in 1..Len(recapSheet) :
             recapSheet[i].accountId # Empty =>
                /\ i <= Len(recapSheet')
                /\ AccountFields(recapSheet'[i]) = AccountFields(recapSheet[i])
       /\ lastOp'.op = "fixMissingAccounts" =>
             \A i \in 1..Len(recapSheet) :
                AccountFields(recapSheet'[i]) # AccountFields(recapSheet[i])
                   => recapSheet[i].accountId = Empty
       /\ lastOp'.op = "match" =>
             /\ Len(recapSheet') = Len(recapSheet)
             /\ \A i \in 1..Len(recapSheet) :
                   AccountFields(recapSheet'[i]) = AccountFields(recapSheet[i])]_vars

\* the fix script has filled the account of one row and left a row alone that
\* the mapping sheet, as it is now, would resolve to another account
C29_Witness ==
    /\ lastOp.op = "fixMissingAccounts"
    /\ lastOp.fixed = 1
    /\ \E i \in 1..Len(recapSheet) :
          /\ recapSheet[i].accountId # Empty
          /\ recapSheet[i].accountId
                # ResolveFirst(ExternalEmails(recapSheet[i].actualAttendees,
                                              recapSheet[i].invitedAttendees),
                               mappingSheet)
----------------------------------------------------------------------------
(* The action items of stored recaps *)

\* the positions of the rows of a recap in 'Meeting Action Items', in sheet
\* order
ItemPositions(meetingRecapId) ==
    SelectSeq([i \in 1..Len(actionItemSheet) |-> i],
              LAMBDA i : actionItemSheet[i].meetingRecapId = meetingRecapId)

\* C30: after any sequence of webhook deliveries every row of Meeting Action
\* Items carries the id of a recap that has a row in Webhook Meeting Recaps,
\* no two rows carry the same (Meeting Recap ID, Action Item Index), and the
\* rows of one recap carry the indices 0..n-1 in the order of the payload.
C30_ItemsBelongToRecaps ==
    /\ \A i \in 1..Len(actionItemSheet) :
          RowCount(recapSheet, actionItemSheet[i].meetingRecapId) > 0
    /\ \A i, j \in 1..Len(actionItemSheet) :
          ItemKey(actionItemSheet[i]) = ItemKey(actionItemSheet[j]) => i = j
    /\ \A id \in RecapIds :
          \A k \in 1..Len(ItemPositions(id)) :
             actionItemSheet[ItemPositions(id)[k]].actionItemIndex = k - 1

\* every recap is stored with a batch of action items and a delivery has been
\* repeated
C30_Witness ==
    /\ Len(actionItemSheet) = NumRecapIds * MaxBatch
    /\ Len(recapSheet) = NumRecapIds
    /\ lastOp.op = "doPost"
    /\ lastOp.action = "skipped"
====
